---------------------------- MODULE Spec2Model ----------------------------
(***************************************************************************)
(* The five-stage agent pipeline of the AI Product Manager: the Run        *)
(* aggregate (core/models/run.py), the StorageService                      *)
(* (backend/services/storage.py), the Orchestrator (core/orchestration.py) *)
(* and the generation clients (core/llm_client.py).                        *)
(*                                                                         *)
(* Texts are sequences of one-character strings, so that substring tests,  *)
(* replacement and JSON parsing are computed and not assumed.              *)
(***************************************************************************)
EXTENDS Integers, Sequences, FiniteSets, TLC

(***************************************************************************)
(* Bounds of the model.                                                    *)
(***************************************************************************)
\* run_agents calls that find their Run, over all run ids
MaxInvocations == 2
\* writes to the disk that fail in one behaviour
MaxWriteFailures == 1
\* the last reading of the clock at which a Run is created
MaxClock == 2
\* the largest limit and offset list_runs is called with
MaxWindow == 3

(***************************************************************************)
(* Text helpers (Python str operations).                                   *)
(***************************************************************************)
NL == "\n"
QUOTE == "\""

\* s[i:j] with 1-based inclusive bounds
Slice(s, i, j) == IF j < i THEN <<>> ELSE SubSeq(s, i, j)

\* sub == s[i : i+len(sub)]
MatchAt(s, sub, i) ==
    /\ i >= 1
    /\ i + Len(sub) - 1 <= Len(s)
    /\ \A k \in 1..Len(sub) : s[i + k - 1] = sub[k]

\* `sub in s`
Contains(s, sub) == \E i \in 1..(Len(s) + 1) : MatchAt(s, sub, i)

RECURSIVE ReplaceFrom(_, _, _, _)
ReplaceFrom(s, old, new, i) ==
    LET at == { k \in i..Len(s) : MatchAt(s, old, k) }
    IN  IF at = {} THEN Slice(s, i, Len(s))
        ELSE LET k == CHOOSE m \in at : \A n \in at : m <= n
             IN  Slice(s, i, k - 1) \o new \o ReplaceFrom(s, old, new, k + Len(old))

\* s.replace(old, new) for a non-empty old: leftmost, non-overlapping, one pass
Replace(s, old, new) == ReplaceFrom(s, old, new, 1)

UpperOf == [c \in {"a","b","c","d","e","f","g","h","i","j","k","l","m",
                   "n","o","p","q","r","s","t","u","v","w","x","y","z"} |->
            CASE c = "a" -> "A" [] c = "b" -> "B" [] c = "c" -> "C" [] c = "d" -> "D"
              [] c = "e" -> "E" [] c = "f" -> "F" [] c = "g" -> "G" [] c = "h" -> "H"
              [] c = "i" -> "I" [] c = "j" -> "J" [] c = "k" -> "K" [] c = "l" -> "L"
              [] c = "m" -> "M" [] c = "n" -> "N" [] c = "o" -> "O" [] c = "p" -> "P"
              [] c = "q" -> "Q" [] c = "r" -> "R" [] c = "s" -> "S" [] c = "t" -> "T"
              [] c = "u" -> "U" [] c = "v" -> "V" [] c = "w" -> "W" [] c = "x" -> "X"
              [] c = "y" -> "Y" [] c = "z" -> "Z"]

LowerOf == [c \in {UpperOf[l] : l \in DOMAIN UpperOf} |->
            CHOOSE l \in DOMAIN UpperOf : UpperOf[l] = c]

\* s.lower()
Lower(s) == <<>> \o [i \in 1..Len(s) |-> IF s[i] \in DOMAIN LowerOf THEN LowerOf[s[i]] ELSE s[i]]

\* s.upper()
Upper(s) == <<>> \o [i \in 1..Len(s) |-> IF s[i] \in DOMAIN UpperOf THEN UpperOf[s[i]] ELSE s[i]]

(***************************************************************************)
(* json.loads / json.dumps(indent=2) on the JSON subset the model's texts  *)
(* use: integers, strings without escapes, and arrays of these.  A parsed  *)
(* value is a record; DecodeError stands for json.JSONDecodeError.         *)
(***************************************************************************)
DecodeError == [kind |-> "JSONDecodeError"]

Digits == {"0","1","2","3","4","5","6","7","8","9"}
JsonWs == {" ", NL}

RECURSIVE LStrip(_)
LStrip(s) == IF s # <<>> /\ Head(s) \in JsonWs THEN LStrip(Tail(s)) ELSE s

RECURSIVE RStrip(_)
RStrip(s) ==
    IF s # <<>> /\ s[Len(s)] \in JsonWs THEN RStrip(Slice(s, 1, Len(s) - 1)) ELSE s

Strip(s) == RStrip(LStrip(s))

\* an integer literal: digits, no leading zero
IsIntLiteral(s) ==
    /\ s # <<>>
    /\ \A i \in 1..Len(s) : s[i] \in Digits
    /\ (Len(s) > 1 => s[1] # "0")

\* a string literal: quoted, no quote or backslash inside
IsStrLiteral(s) ==
    /\ Len(s) >= 2
    /\ s[1] = QUOTE
    /\ s[Len(s)] = QUOTE
    /\ \A i \in 2..(Len(s) - 1) : s[i] \notin {QUOTE, "\\", NL}

ParseScalar(s) ==
    IF IsIntLiteral(s) THEN [kind |-> "int", text |-> s]
    ELSE IF IsStrLiteral(s) THEN [kind |-> "str", text |-> Slice(s, 2, Len(s) - 1)]
    ELSE DecodeError

\* the comma-separated parts of s, commas inside string literals not splitting
RECURSIVE SplitItems(_, _, _, _)
SplitItems(s, i, cur, inStr) ==
    IF i > Len(s) THEN <<cur>>
    ELSE IF s[i] = QUOTE THEN SplitItems(s, i + 1, Append(cur, s[i]), ~inStr)
    ELSE IF s[i] = "," /\ ~inStr THEN <<cur>> \o SplitItems(s, i + 1, <<>>, FALSE)
    ELSE SplitItems(s, i + 1, Append(cur, s[i]), inStr)

\* the parsed parts of an array literal
ParseItems(parts) == <<>> \o [i \in 1..Len(parts) |-> ParseScalar(Strip(parts[i]))]

ParseArray(s) ==
    LET inner == Slice(s, 2, Len(s) - 1)
    IN  IF Len(s) < 2 \/ s[Len(s)] # "]" THEN DecodeError
        ELSE IF Strip(inner) = <<>> THEN [kind |-> "list", items |-> <<>>]
        ELSE CHOOSE v \in { IF \E i \in 1..Len(items) : items[i] = DecodeError
                            THEN DecodeError
                            ELSE [kind |-> "list", items |-> items] :
                                items \in {ParseItems(SplitItems(inner, 1, <<>>, FALSE))} } :
                 TRUE

\* json.loads(text)
JsonLoads(text) ==
    CHOOSE v \in { IF s = <<>> THEN DecodeError
                   ELSE IF s[1] = "[" THEN ParseArray(s)
                   ELSE ParseScalar(s) : s \in {Strip(text)} } : TRUE

DumpScalar(v) ==
    IF v.kind = "int" THEN v.text ELSE <<QUOTE>> \o v.text \o <<QUOTE>>

RECURSIVE DumpItems(_, _)
DumpItems(items, i) ==
    IF i > Len(items) THEN <<>>
    ELSE <<NL, " ", " ">> \o DumpScalar(items[i])
         \o (IF i < Len(items) THEN <<",">> ELSE <<>>)
         \o DumpItems(items, i + 1)

\* json.dumps(value, indent=2); the value is evaluated once, then dumped
JsonDumps(v) ==
    CHOOSE text \in { IF w.kind = "list"
                      THEN IF w.items = <<>> THEN <<"[", "]">>
                           ELSE <<"[">> \o DumpItems(w.items, 1) \o <<NL, "]">>
                      ELSE DumpScalar(w) : w \in {v} } : TRUE

(***************************************************************************)
(* Keyword replacement (core/llm_client.py).                               *)
(***************************************************************************)
\* the six placeholder tokens, in the order the code replaces them
Placeholders ==
    << <<"[","p","r","o","b","l","e","m"," ","d","o","m","a","i","n","]">>,
       <<"[","m","a","i","n"," ","u","s","e"," ","c","a","s","e","]">>,
       <<"[","i","t","e","m","]">>,
       <<"[","I","t","e","m","]">>,
       <<"[","P","r","o","d","u","c","t","]">>,
       <<"[","P","r","o","d","u","c","t"," ","N","a","m","e","]">> >>

FitnessKeywords ==
    { <<"f","i","t","n","e","s","s">>,
      <<"w","o","r","k","o","u","t">>,
      <<"e","x","e","r","c","i","s","e">>,
      <<"g","y","m">> }

FitnessPhrases ==
    << <<"f","i","t","n","e","s","s"," ","t","r","a","c","k","i","n","g">>,
       <<"w","o","r","k","o","u","t"," ","p","l","a","n","n","i","n","g">>,
       <<"w","o","r","k","o","u","t">>,
       <<"W","o","r","k","o","u","t">>,
       <<"F","i","t","n","e","s","s"," ","T","r","a","c","k","e","r">>,
       <<"F","i","t","n","e","s","s"," ","T","r","a","c","k","e","r">> >>

FinanceKeywords ==
    { <<"f","i","n","a","n","c","e">>,
      <<"b","u","d","g","e","t">>,
      <<"m","o","n","e","y">>,
      <<"i","n","v","e","s","t","m","e","n","t">>,
      <<"b","a","n","k","i","n","g">> }

FinancePhrases ==
    << <<"p","e","r","s","o","n","a","l"," ","f","i","n","a","n","c","e"," ","m","a","n","a","g","e","m","e","n","t">>,
       <<"b","u","d","g","e","t"," ","t","r","a","c","k","i","n","g">>,
       <<"t","r","a","n","s","a","c","t","i","o","n">>,
       <<"T","r","a","n","s","a","c","t","i","o","n">>,
       <<"F","i","n","a","n","c","e"," ","M","a","n","a","g","e","r">>,
       <<"F","i","n","a","n","c","e"," ","M","a","n","a","g","e","r">> >>

MeditationKeywords ==
    { <<"m","e","d","i","t","a","t","i","o","n">>,
      <<"m","i","n","d","f","u","l","n","e","s","s">>,
      <<"r","e","l","a","x">>,
      <<"s","t","r","e","s","s">>,
      <<"m","e","n","t","a","l">> }

MeditationPhrases ==
    << <<"s","t","r","e","s","s"," ","m","a","n","a","g","e","m","e","n","t"," ","a","n","d"," ","m","e","n","t","a","l"," ","w","e","l","l","n","e","s","s">>,
       <<"m","e","d","i","t","a","t","i","o","n"," ","p","r","a","c","t","i","c","e">>,
       <<"m","e","d","i","t","a","t","i","o","n"," ","s","e","s","s","i","o","n">>,
       <<"M","e","d","i","t","a","t","i","o","n"," ","S","e","s","s","i","o","n">>,
       <<"M","i","n","d","f","u","l","n","e","s","s"," ","A","p","p">>,
       <<"M","i","n","d","f","u","l","n","e","s","s"," ","A","p","p">> >>

ProductivityKeywords ==
    { <<"p","r","o","d","u","c","t","i","v","i","t","y">>,
      <<"t","a","s","k">>,
      <<"t","o","d","o">>,
      <<"s","c","h","e","d","u","l","e">>,
      <<"p","r","o","j","e","c","t">>,
      <<"t","e","a","m">> }

ProductivityPhrases ==
    << <<"t","a","s","k"," ","m","a","n","a","g","e","m","e","n","t"," ","a","n","d"," ","p","r","o","d","u","c","t","i","v","i","t","y">>,
       <<"t","a","s","k"," ","o","r","g","a","n","i","z","a","t","i","o","n">>,
       <<"t","a","s","k">>,
       <<"T","a","s","k">>,
       <<"P","r","o","d","u","c","t","i","v","i","t","y"," ","M","a","n","a","g","e","r">>,
       <<"P","r","o","d","u","c","t","i","v","i","t","y"," ","M","a","n","a","g","e","r">> >>

GenericPhrases ==
    << <<"t","h","e"," ","p","r","o","b","l","e","m"," ","d","o","m","a","i","n">>,
       <<"t","h","e"," ","m","a","i","n"," ","u","s","e"," ","c","a","s","e">>,
       <<"i","t","e","m">>,
       <<"I","t","e","m">>,
       <<"P","r","o","d","u","c","t">>,
       <<"P","r","o","d","u","c","t"," ","N","a","m","e">> >>

\* any(keyword in prompt.lower() for keyword in keywords)
AnyKeyword(prompt, keywords) ==
    LET lowered == Lower(prompt) IN \E k \in keywords : Contains(lowered, k)

\* the replace calls of one branch without the one of [Product] (the variant
\* C15 is tested against)
RECURSIVE ReplaceAllButProduct(_, _, _)
ReplaceAllButProduct(response, phrases, i) ==
    IF i > Len(Placeholders) THEN response
    ELSE IF i = 5 THEN ReplaceAllButProduct(response, phrases, i + 1)
    ELSE ReplaceAllButProduct(Replace(response, Placeholders[i], phrases[i]), phrases, i + 1)

\* the six response.replace(token, phrase) calls of one branch, in order
RECURSIVE ReplaceAll(_, _, _)
ReplaceAll(response, phrases, i) ==
    IF i > Len(Placeholders) THEN response
    ELSE ReplaceAll(Replace(response, Placeholders[i], phrases[i]), phrases, i + 1)

\* the branches with productivity tested before finance (the variant C14 is
\* tested against)
apply_keyword_replacement_reordered(response, prompt) ==
    IF AnyKeyword(prompt, FitnessKeywords) THEN ReplaceAll(response, FitnessPhrases, 1)
    ELSE IF AnyKeyword(prompt, ProductivityKeywords) THEN ReplaceAll(response, ProductivityPhrases, 1)
    ELSE IF AnyKeyword(prompt, FinanceKeywords) THEN ReplaceAll(response, FinancePhrases, 1)
    ELSE IF AnyKeyword(prompt, MeditationKeywords) THEN ReplaceAll(response, MeditationPhrases, 1)
    ELSE ReplaceAll(response, GenericPhrases, 1)

\* StubLLMClient._apply_keyword_replacement
apply_keyword_replacement(response, prompt) ==
    IF AnyKeyword(prompt, FitnessKeywords) THEN ReplaceAll(response, FitnessPhrases, 1)
    ELSE IF AnyKeyword(prompt, FinanceKeywords) THEN ReplaceAll(response, FinancePhrases, 1)
    ELSE IF AnyKeyword(prompt, MeditationKeywords) THEN ReplaceAll(response, MeditationPhrases, 1)
    ELSE IF AnyKeyword(prompt, ProductivityKeywords) THEN ReplaceAll(response, ProductivityPhrases, 1)
    ELSE ReplaceAll(response, GenericPhrases, 1)

\* the tables of AutoGenLLMClient._apply_keyword_replacement (lines 198-236)
AutoGenPlaceholders ==
    << <<"[","p","r","o","b","l","e","m"," ","d","o","m","a","i","n","]">>,
       <<"[","m","a","i","n"," ","u","s","e"," ","c","a","s","e","]">>,
       <<"[","i","t","e","m","]">>,
       <<"[","I","t","e","m","]">>,
       <<"[","P","r","o","d","u","c","t","]">>,
       <<"[","P","r","o","d","u","c","t"," ","N","a","m","e","]">> >>

AutoGenFitnessKeywords ==
    { <<"f","i","t","n","e","s","s">>,
      <<"w","o","r","k","o","u","t">>,
      <<"e","x","e","r","c","i","s","e">>,
      <<"g","y","m">> }

AutoGenFitnessPhrases ==
    << <<"f","i","t","n","e","s","s"," ","t","r","a","c","k","i","n","g">>,
       <<"w","o","r","k","o","u","t"," ","p","l","a","n","n","i","n","g">>,
       <<"w","o","r","k","o","u","t">>,
       <<"W","o","r","k","o","u","t">>,
       <<"F","i","t","n","e","s","s"," ","T","r","a","c","k","e","r">>,
       <<"F","i","t","n","e","s","s"," ","T","r","a","c","k","e","r">> >>

AutoGenFinanceKeywords ==
    { <<"f","i","n","a","n","c","e">>,
      <<"b","u","d","g","e","t">>,
      <<"m","o","n","e","y">>,
      <<"i","n","v","e","s","t","m","e","n","t">>,
      <<"b","a","n","k","i","n","g">> }

AutoGenFinancePhrases ==
    << <<"p","e","r","s","o","n","a","l"," ","f","i","n","a","n","c","e"," ","m","a","n","a","g","e","m","e","n","t">>,
       <<"b","u","d","g","e","t"," ","t","r","a","c","k","i","n","g">>,
       <<"t","r","a","n","s","a","c","t","i","o","n">>,
       <<"T","r","a","n","s","a","c","t","i","o","n">>,
       <<"F","i","n","a","n","c","e"," ","M","a","n","a","g","e","r">>,
       <<"F","i","n","a","n","c","e"," ","M","a","n","a","g","e","r">> >>

AutoGenMeditationKeywords ==
    { <<"m","e","d","i","t","a","t","i","o","n">>,
      <<"m","i","n","d","f","u","l","n","e","s","s">>,
      <<"r","e","l","a","x">>,
      <<"s","t","r","e","s","s">>,
      <<"m","e","n","t","a","l">> }

AutoGenMeditationPhrases ==
    << <<"s","t","r","e","s","s"," ","m","a","n","a","g","e","m","e","n","t"," ","a","n","d"," ","m","e","n","t","a","l"," ","w","e","l","l","n","e","s","s">>,
       <<"m","e","d","i","t","a","t","i","o","n"," ","p","r","a","c","t","i","c","e">>,
       <<"m","e","d","i","t","a","t","i","o","n"," ","s","e","s","s","i","o","n">>,
       <<"M","e","d","i","t","a","t","i","o","n"," ","S","e","s","s","i","o","n">>,
       <<"M","i","n","d","f","u","l","n","e","s","s"," ","A","p","p">>,
       <<"M","i","n","d","f","u","l","n","e","s","s"," ","A","p","p">> >>

AutoGenProductivityKeywords ==
    { <<"p","r","o","d","u","c","t","i","v","i","t","y">>,
      <<"t","a","s","k">>,
      <<"t","o","d","o">>,
      <<"s","c","h","e","d","u","l","e">>,
      <<"p","r","o","j","e","c","t">>,
      <<"t","e","a","m">> }

AutoGenProductivityPhrases ==
    << <<"t","a","s","k"," ","m","a","n","a","g","e","m","e","n","t"," ","a","n","d"," ","p","r","o","d","u","c","t","i","v","i","t","y">>,
       <<"t","a","s","k"," ","o","r","g","a","n","i","z","a","t","i","o","n">>,
       <<"t","a","s","k">>,
       <<"T","a","s","k">>,
       <<"P","r","o","d","u","c","t","i","v","i","t","y"," ","M","a","n","a","g","e","r">>,
       <<"P","r","o","d","u","c","t","i","v","i","t","y"," ","M","a","n","a","g","e","r">> >>

AutoGenGenericPhrases ==
    << <<"t","h","e"," ","p","r","o","b","l","e","m"," ","d","o","m","a","i","n">>,
       <<"t","h","e"," ","m","a","i","n"," ","u","s","e"," ","c","a","s","e">>,
       <<"i","t","e","m">>,
       <<"I","t","e","m">>,
       <<"P","r","o","d","u","c","t">>,
       <<"P","r","o","d","u","c","t"," ","N","a","m","e">> >>

RECURSIVE AutoGenReplaceAll(_, _, _)
AutoGenReplaceAll(response, phrases, i) ==
    IF i > Len(AutoGenPlaceholders) THEN response
    ELSE AutoGenReplaceAll(Replace(response, AutoGenPlaceholders[i], phrases[i]), phrases, i + 1)

\* a copy that lacks the meditation branch (the variant C16 is tested against)
autogen_apply_without_meditation(response, prompt) ==
    IF AnyKeyword(prompt, AutoGenFitnessKeywords)
    THEN AutoGenReplaceAll(response, AutoGenFitnessPhrases, 1)
    ELSE IF AnyKeyword(prompt, AutoGenFinanceKeywords)
    THEN AutoGenReplaceAll(response, AutoGenFinancePhrases, 1)
    ELSE IF AnyKeyword(prompt, AutoGenProductivityKeywords)
    THEN AutoGenReplaceAll(response, AutoGenProductivityPhrases, 1)
    ELSE AutoGenReplaceAll(response, AutoGenGenericPhrases, 1)

\* AutoGenLLMClient._apply_keyword_replacement (a second copy of the code)
autogen_apply_keyword_replacement(response, prompt) ==
    IF AnyKeyword(prompt, AutoGenFitnessKeywords)
    THEN AutoGenReplaceAll(response, AutoGenFitnessPhrases, 1)
    ELSE IF AnyKeyword(prompt, AutoGenFinanceKeywords)
    THEN AutoGenReplaceAll(response, AutoGenFinancePhrases, 1)
    ELSE IF AnyKeyword(prompt, AutoGenMeditationKeywords)
    THEN AutoGenReplaceAll(response, AutoGenMeditationPhrases, 1)
    ELSE IF AnyKeyword(prompt, AutoGenProductivityKeywords)
    THEN AutoGenReplaceAll(response, AutoGenProductivityPhrases, 1)
    ELSE AutoGenReplaceAll(response, AutoGenGenericPhrases, 1)

(***************************************************************************)
(* Prompt templates and canned responses (core/prompts/templates.py).      *)
(***************************************************************************)
StageNames == <<"strategist", "architect", "ux_writer", "mockup_designer", "synthesizer">>

\* the text of a role or stage name
NameText(name) ==
    CASE name = "strategist" -> <<"s","t","r","a","t","e","g","i","s","t">>
      [] name = "architect" -> <<"a","r","c","h","i","t","e","c","t">>
      [] name = "ux_writer" -> <<"u","x","_","w","r","i","t","e","r">>
      [] name = "mockup_designer" -> <<"m","o","c","k","u","p","_","d","e","s","i","g","n","e","r">>
      [] name = "synthesizer" -> <<"s","y","n","t","h","e","s","i","z","e","r">>

\* get_prd_template()
get_prd_template == <<"#"," ","P","R","D">>

\* get_agent_prompt(agent, **context): the stage's template with the named
\* context values filled in
get_agent_prompt(agent, context) ==
    CASE agent = "strategist" ->
            <<"i","d","e","a",":"," ">> \o context.idea
            \o <<" ","q","u","e","s","t","i","o","n","s",":"," ">> \o context.max_questions
      [] agent = "architect" ->
            <<"i","d","e","a",":"," ">> \o context.idea
            \o <<" ","a","n","a","l","y","s","i","s",":"," ">> \o context.strategist_analysis
            \o <<" ","a","n","s","w","e","r","s",":"," ">> \o context.user_answers
      [] agent = "ux_writer" ->
            <<"i","d","e","a",":"," ">> \o context.idea
            \o <<" ","a","n","a","l","y","s","i","s",":"," ">> \o context.architect_analysis
      [] agent = "mockup_designer" ->
            <<"i","d","e","a",":"," ">> \o context.idea
            \o <<" ","a","n","a","l","y","s","i","s",":"," ">> \o context.architect_analysis
            \o <<" ","a","n","a","l","y","s","i","s",":"," ">> \o context.ux_writer_analysis
      [] agent = "synthesizer" ->
            context.conversation_history \o <<NL>> \o context.prd_template

\* get_stub_response(agent): the canned response of the stage
get_stub_response(agent) ==
    CASE agent = "strategist" ->
            <<"[","P","r","o","d","u","c","t","]",":"," ",
              "[","p","r","o","b","l","e","m"," ","d","o","m","a","i","n","]">>
      [] agent = "architect" ->
            <<"[","m","a","i","n"," ","u","s","e"," ","c","a","s","e","]",","," ",
              "[","i","t","e","m","]">>
      [] agent = "ux_writer" ->
            <<"[","I","t","e","m","]"," ",
              "[","P","r","o","d","u","c","t"," ","N","a","m","e","]">>
      [] agent = "mockup_designer" ->
            <<"[","\"","[","P","r","o","d","u","c","t"," ","N","a","m","e","]","\"","]">>
      [] agent = "synthesizer" ->
            <<"#"," ","[","P","r","o","d","u","c","t"," ","N","a","m","e","]">>

(***************************************************************************)
(* Generation clients (core/llm_client.py).  The value a generate call     *)
(* hands to its caller is a record: a text, the value None, or a raised    *)
(* exception.                                                              *)
(***************************************************************************)
TextResult(t) == [kind |-> "text", text |-> t]
NoneResult == [kind |-> "none"]
RaiseResult(e) == [kind |-> "raise", exc |-> e]

\* StubLLMClient.generate
stub_generate(prompt, agent_name) ==
    TextResult(apply_keyword_replacement(get_stub_response(agent_name), prompt))

\* what the remote conversation service can do in one generate call: raise
\* while AutoGen is initialized, while the agents are constructed or during
\* the chat; or leave a chat history for user_proxy (absent, or a list of
\* messages whose last one has a "content" entry or not)
RemoteText == <<"O","K">>

RemoteReplies ==
    { [kind |-> "raise", at |-> a] : a \in {"initialize", "construct", "chat"} }
    \cup { [kind |-> "history", present |-> FALSE, messages |-> <<>>],
           [kind |-> "history", present |-> TRUE, messages |-> <<>>],
           [kind |-> "history", present |-> TRUE,
            messages |-> << [has_content |-> FALSE, content |-> NoneResult] >>],
           [kind |-> "history", present |-> TRUE,
            messages |-> << [has_content |-> TRUE, content |-> NoneResult] >>],
           [kind |-> "history", present |-> TRUE,
            messages |-> << [has_content |-> TRUE, content |-> TextResult(<<>>)] >>],
           [kind |-> "history", present |-> TRUE,
            messages |-> << [has_content |-> TRUE, content |-> TextResult(RemoteText)] >>] }

\* no remote service (the client is not the AutoGen one)
NoRemote == [kind |-> "unused"]

\* the fallback of AutoGenLLMClient.generate (lines 180-185 and 187-193)
autogen_fallback(prompt, agent_name) ==
    TextResult(autogen_apply_keyword_replacement(get_stub_response(agent_name), prompt))

\* AutoGenLLMClient.generate
autogen_generate(prompt, agent_name, reply) ==
    IF reply.kind = "raise"
    THEN autogen_fallback(prompt, agent_name)                \* except Exception
    ELSE IF reply.present /\ reply.messages # <<>>
         THEN LET last == reply.messages[Len(reply.messages)]
              IN  IF last.has_content
                  THEN last.content                          \* messages[-1]["content"]
                  ELSE autogen_fallback(prompt, agent_name)  \* KeyError, except Exception
         ELSE autogen_fallback(prompt, agent_name)           \* "returned no response"

\* settings.openai_api_key: the default of config.py, the empty text, a key
PlaceholderKey == "your_openai_api_key_here"
ApiKeys == {"", PlaceholderKey, "sk-test"}

\* what `import autogen` does in AutoGenLLMClient.__init__
ImportOutcomes == {"imported", "ImportError", "Exception"}

\* AutoGenLLMClient.__init__: the client, or the exception that leaves it
autogen_init(import_outcome) ==
    IF import_outcome = "imported" THEN "autogen" ELSE import_outcome

\* get_llm_client without the test against the placeholder key (the variant
\* C18 is tested against)
get_llm_client_any_key(openai_api_key, import_outcome) ==
    IF openai_api_key # ""
    THEN IF autogen_init(import_outcome) = "autogen" THEN "autogen" ELSE "stub"
    ELSE "stub"

\* get_llm_client: the kind of the client it returns
get_llm_client(openai_api_key, import_outcome) ==
    IF openai_api_key # "" /\ openai_api_key # PlaceholderKey
    THEN IF autogen_init(import_outcome) = "autogen"
         THEN "autogen"
         ELSE "stub"               \* except ImportError, except Exception
    ELSE "stub"

\* no llm_client argument
NoClient == "none"

\* Orchestrator.__init__: self.llm_client = llm_client or get_llm_client()
orchestrator_llm_client(llm_client, openai_api_key, import_outcome) ==
    IF llm_client # NoClient THEN llm_client
    ELSE get_llm_client(openai_api_key, import_outcome)

(***************************************************************************)
(* The Run aggregate (core/models/run.py).                                 *)
(***************************************************************************)
RunIds == {"r1", "r2"}

IdeaGym == <<"g","y","m">>
IdeaApp == <<"a","p","p">>
Ideas == {IdeaGym, IdeaApp}

ArtifactTypes == {"prd_markdown", "prd_pdf", "conversation", "mockup_json", "bundle"}

\* completed_at of a Run that never completed (None)
NullTime == 0

\* the absent Run (None, or no run.json)
NoRun == [id |-> "none"]

\* Message(role, content, step, metadata): content must be a str
MessageValid(result) == result.kind = "text"

\* add_message putting the message in front of the others (the variant C34 is
\* tested against)
add_message_in_front(run, role, content, step, metadata) ==
    [run EXCEPT !.messages =
        <<[role |-> role, content |-> content, step |-> step, metadata |-> metadata]>> \o @]

\* Run.add_message
add_message(run, role, content, step, metadata) ==
    [run EXCEPT !.messages =
        Append(@, [role |-> role, content |-> content, step |-> step,
                   metadata |-> metadata])]

\* Run.update_status; now is the reading of the clock
update_status(run, status, now) ==
    [run EXCEPT !.status = status,
                !.completed_at = IF status = "completed" THEN now ELSE @]

\* Run.get_artifact_path
get_artifact_path(run, artifact_type) ==
    IF artifact_type \in DOMAIN run.artifacts THEN run.artifacts[artifact_type] ELSE <<>>

\* the last message of a role, or the empty string
RECURSIVE LastContentOf(_, _, _)
LastContentOf(messages, role, i) ==
    IF i = 0 THEN <<>>
    ELSE IF messages[i].role = role THEN messages[i].content
    ELSE LastContentOf(messages, role, i - 1)

last_analysis(run, role) == LastContentOf(run.messages, role, Len(run.messages))

\* the location handles create_run registers (storage.py lines 33-37)
ArtifactFile(artifact_type) ==
    CASE artifact_type = "prd_markdown" -> "PRD.md"
      [] artifact_type = "prd_pdf" -> "PRD.pdf"
      [] artifact_type = "conversation" -> "conversation.json"
      [] artifact_type = "mockup_json" -> "mockup.json"
      [] artifact_type = "bundle" -> "bundle.zip"

\* Run(idea=idea) with the artifact paths of create_run set; now is the reading
\* of the clock that created_at takes
NewRun(id, idea, now) ==
    [id |-> id, idea |-> idea, status |-> "pending", created_at |-> now,
     completed_at |-> NullTime,
     messages |-> <<>>, user_answers |-> <<>>, assumptions |-> <<>>,
     artifacts |-> [t \in ArtifactTypes |-> [dir |-> id, file |-> ArtifactFile(t)]]]

(***************************************************************************)
(* State.                                                                  *)
(***************************************************************************)
VARIABLES
    cfg,          \* the scenario: the llm_client the Orchestrator was built with, how the
                  \* remote service answers, whether writes to the disk may fail, the
                  \* ids create_run allocates and the ideas it is called with, whether
                  \* run_agents is called again for a Run it was called for
    disk,         \* run id -> the content of runs/<id>/run.json, or NoRun
    cache,        \* StorageService._runs_cache: run id -> the cached Run object, or NoRun;
                  \* the `run` of a run_agents task is this very object
    files,        \* run id -> artifact type -> the artifact file
    pc,           \* run id -> where the run_agents task of the run is
    stage,        \* run id -> the stage (1..5) the task is in
    resp,         \* run id -> the `response` and prompt length of the stage in hand
    exc,          \* run id -> the exception in flight or raised to the caller
    outcome,      \* run id -> how the last run_agents call ended
    inv,          \* run id -> number of run_agents calls that found the Run
    startStatus,  \* run id -> the Run's status when the current call loaded it
    calls,        \* run id -> the generate calls of the current run_agents call: the
                  \* agent, the client that served it, the prompt (for the clients
                  \* of get_llm_client; the injected mock does not read it), the
                  \* result and the exception the call raised
    startLen,     \* run id -> number of messages of the Run when the current call loaded it
    pdfResult,    \* run id -> what the rendering sink did in the current call
    updFailed,    \* run id -> whether the update_run of a stage of the current call failed
    writeFailures,\* number of writes to the disk that failed
    gen,          \* the last generate call made directly on the two clients
    seen,         \* run id -> what the last GET /runs/{run_id} returned
    clock,        \* the reading of datetime.utcnow() that created_at takes
    ret,          \* run id -> the Run create_run returned for the id
    call,         \* the call made directly on the StorageService or the
                  \* PDFGenerator, and what it returned
    down          \* whether the process has crashed; the other variables then
                  \* hold the disk and the memory as the crash left them

vars == <<cfg, disk, cache, files, pc, stage, resp, exc, outcome, inv, startStatus,
          calls, startLen, pdfResult, updFailed, writeFailures, gen, seen, clock, ret,
          call, down>>

\* no call on the services yet
NoServiceCall == [op |-> "none", called |-> FALSE]

\* no direct generate call yet
NoCall == [prompt |-> <<>>, agent |-> "none", called |-> FALSE]

NoFile == [kind |-> "absent"]
TextFile(t) == [kind |-> "text", text |-> t]
JsonFile(d) == [kind |-> "json", data |-> d]
NoResp == [result |-> NoneResult, prompt_length |-> 0]

(***************************************************************************)
(* StorageService (backend/services/storage.py).                           *)
(***************************************************************************)
\* _save_run: the run.json written for a Run
save_run(run) ==
    [id |-> run.id, idea |-> run.idea, status |-> run.status,
     created_at |-> run.created_at,
     completed_at |-> run.completed_at, messages |-> run.messages,
     user_answers |-> run.user_answers, assumptions |-> run.assumptions,
     artifacts |-> run.artifacts]

\* Run(**data) of get_run
load_run(data) ==
    [id |-> data.id, idea |-> data.idea, status |-> data.status,
     created_at |-> data.created_at,
     completed_at |-> data.completed_at, messages |-> data.messages,
     user_answers |-> data.user_answers, assumptions |-> data.assumptions,
     artifacts |-> data.artifacts]

\* get_run as a get-or-create (the variant C4 is tested against)
get_run_or_create(r) ==
    IF cache[r] # NoRun THEN cache[r]
    ELSE IF disk[r] = NoRun THEN NewRun(r, IdeaApp, clock)
    ELSE load_run(disk[r])

\* get_run looking in the cache only (the variant C36 is tested against)
get_run_cache_only(r) == cache[r]

\* get_run: the cached object first, else the Run loaded from run.json, else None
get_run(r) ==
    IF cache[r] # NoRun THEN cache[r]
    ELSE IF disk[r] = NoRun THEN NoRun
    ELSE load_run(disk[r])

\* whether the disk accepts a write
StoreOutcomes == IF cfg.faults /\ writeFailures < MaxWriteFailures THEN BOOLEAN ELSE {TRUE}

\* update_run writing the Run into the run.json of every Run there is (the
\* variant C19 is tested against)
update_run_every_file(run, ok) ==
    IF ok
    THEN [o \in RunIds |-> IF o = run.id \/ disk[o] # NoRun THEN save_run(run) ELSE NoRun]
    ELSE disk

\* update_run adding the messages of the Run to the ones run.json holds (the
\* variant C22 is tested against)
update_run_appending(run, ok) ==
    IF ok
    THEN [disk EXCEPT ![run.id] =
             IF disk[run.id] = NoRun THEN save_run(run)
             ELSE [save_run(run) EXCEPT !.messages = disk[run.id].messages \o @]]
    ELSE disk

\* update_run: run.json after the call; a failed write is logged and False returned
update_run(run, ok) ==
    IF ok THEN [disk EXCEPT ![run.id] = save_run(run)] ELSE disk

\* what save_artifact writes into the file of the type: the content of the
\* type conversation, when it is a str, is parsed and dumped with indent=2,
\* the content of every other type is written as it is; DecodeError when
\* json.loads raises
artifact_written(artifact_type, content) ==
    IF artifact_type = "conversation" /\ content.kind = "text"
    THEN CHOOSE written \in { IF data = DecodeError THEN DecodeError
                              ELSE TextFile(JsonDumps(data)) :
                                  data \in {JsonLoads(content.text)} } : TRUE
    ELSE content

\* the sequences that hold every element of the set once: the orders in which
\* iterdir() can yield the run directories
Orders(S) ==
    { o \in [1..Cardinality(S) -> S] :
        \A i, j \in 1..Cardinality(S) : i # j => o[i] # o[j] }

\* the place a Run takes in a list sorted by created_at, newest first: behind
\* the Runs that are not older, as the stable sort keeps equal keys in order
InsertRun(runs, run) ==
    CHOOSE sorted \in { SubSeq(runs, 1, k) \o <<run>> \o SubSeq(runs, k + 1, Len(runs)) :
                          k \in { Cardinality({ i \in 1..Len(runs) :
                                                   runs[i].created_at >= run.created_at }) } } :
        TRUE

\* runs.sort(key=lambda r: r.created_at, reverse=True) of the first i Runs
RECURSIVE SortNewestFirst(_, _)
SortNewestFirst(runs, i) ==
    IF i = 0 THEN <<>> ELSE InsertRun(SortNewestFirst(runs, i - 1), runs[i])

\* the index a bound b of a Python slice denotes in a list of n elements
SliceIndex(b, n) ==
    IF b < 0 THEN (IF b + n < 0 THEN 0 ELSE b + n) ELSE IF b > n THEN n ELSE b

\* runs[lo:hi]
PySlice(runs, lo, hi) ==
    Slice(runs, SliceIndex(lo, Len(runs)) + 1, SliceIndex(hi, Len(runs)))

\* list_runs(limit, offset) when iterdir() yields the run directories in the
\* order given: get_run of each, the sort, runs[offset:offset + limit]
list_runs(order, limit, offset) ==
    PySlice(SortNewestFirst(<<>> \o [i \in 1..Len(order) |-> get_run(order[i])], Len(order)),
            offset, offset + limit)

\* save_artifact returns True: the Run is there, it has a path for the type
\* (open() of the path of an unknown type, "", raises), json.loads and the
\* write raise nothing
save_artifact_returns(run_id, artifact_type, content, ok) ==
    /\ get_run(run_id) # NoRun
    /\ artifact_type \in DOMAIN get_run(run_id).artifacts
    /\ artifact_written(artifact_type, content) # DecodeError
    /\ ok

\* save_artifact: the artifact files after the call
save_artifact(run_id, artifact_type, content, ok) ==
    IF save_artifact_returns(run_id, artifact_type, content, ok)
    THEN [files EXCEPT ![run_id][artifact_type] = artifact_written(artifact_type, content)]
    ELSE files

\* create_run returning the Run without writing run.json (the variant C23 is
\* tested against)
create_run_unsaved(r, idea) ==
    /\ r \in cfg.ids
    /\ idea \in cfg.ideas
    /\ disk[r] = NoRun
    /\ cache[r] = NoRun
    /\ ret' = [ret EXCEPT ![r] = NewRun(r, idea, clock)]
    /\ UNCHANGED <<cfg, down, clock, call, seen, disk, cache, files, pc, stage, resp, exc, outcome, inv,
                   startStatus, calls, pdfResult, updFailed, writeFailures, startLen, gen>>

\* create_run(idea) allocating the id r: uuid4 gives an id no Run has
create_run(r, idea) ==
    /\ r \in cfg.ids
    /\ idea \in cfg.ideas
    /\ disk[r] = NoRun
    /\ cache[r] = NoRun
    /\ LET run == NewRun(r, idea, clock)
       IN  /\ disk' = [disk EXCEPT ![r] = save_run(run)]
           /\ ret' = [ret EXCEPT ![r] = run]
    /\ UNCHANGED <<cfg, down, clock, call, seen, cache, files, pc, stage, resp, exc, outcome, inv, startStatus,
                   calls, pdfResult, updFailed, writeFailures, startLen, gen>>

(***************************************************************************)
(* Orchestrator (core/orchestration.py).                                   *)
(***************************************************************************)
\* settings.max_strategist_questions
max_strategist_questions == 5

\* str(n) of a one-digit number
DigitText(n) ==
    <<CASE n = 0 -> "0" [] n = 1 -> "1" [] n = 2 -> "2" [] n = 3 -> "3" [] n = 4 -> "4"
        [] n = 5 -> "5" [] n = 6 -> "6" [] n = 7 -> "7" [] n = 8 -> "8" [] n = 9 -> "9">>

\* "\n".join(lines)
RECURSIVE Join(_, _)
Join(lines, i) ==
    IF i > Len(lines) THEN <<>>
    ELSE lines[i] \o (IF i < Len(lines) THEN <<NL>> ELSE <<>>) \o Join(lines, i + 1)

\* the three lines with the role as it is stored, in lower case (the variant
\* C30 is tested against)
HistoryLines_role_as_stored(message) ==
    << <<"=","=","="," ">> \o NameText(message.role)
         \o <<" ","(","S","t","e","p"," ">> \o DigitText(message.step)
         \o <<")"," ","=","=","=">>,
       message.content,
       <<>> >>

\* the three lines _format_conversation_history appends for a message
HistoryLines(message) ==
    << <<"=","=","="," ">> \o Upper(NameText(message.role))
         \o <<" ","(","S","t","e","p"," ">> \o DigitText(message.step)
         \o <<")"," ","=","=","=">>,
       message.content,
       <<>> >>

RECURSIVE AllHistoryLines(_, _)
AllHistoryLines(messages, i) ==
    IF i > Len(messages) THEN <<>>
    ELSE HistoryLines(messages[i]) \o AllHistoryLines(messages, i + 1)

\* Orchestrator._format_conversation_history
format_conversation_history(run) ==
    CHOOSE text \in { Join(lines, 1) : lines \in {AllHistoryLines(run.messages, 1)} } : TRUE

\* json.dumps(run.user_answers); the pipeline never fills user_answers
dumps_user_answers(user_answers) == <<"{", "}">>

\* the context with the content of the last message of the Run, whatever its
\* role, as every analysis (the variant C29 is tested against)
stage_context_last_message(run, k) ==
    LET last == IF run.messages = <<>> THEN <<>>
                ELSE run.messages[Len(run.messages)].content
    IN  CASE k = 1 -> [idea |-> run.idea,
                       max_questions |-> DigitText(max_strategist_questions)]
          [] k = 2 -> [idea |-> run.idea, strategist_analysis |-> last,
                       user_answers |-> dumps_user_answers(run.user_answers)]
          [] k = 3 -> [idea |-> run.idea, architect_analysis |-> last]
          [] k = 4 -> [idea |-> run.idea, architect_analysis |-> last,
                       ux_writer_analysis |-> last]
          [] k = 5 -> [conversation_history |-> format_conversation_history(run),
                       prd_template |-> get_prd_template]

\* the context each _run_<stage> passes to get_agent_prompt
stage_context(run, k) ==
    CASE k = 1 -> [idea |-> run.idea,
                   max_questions |-> DigitText(max_strategist_questions)]
      [] k = 2 -> [idea |-> run.idea,
                   strategist_analysis |-> last_analysis(run, "strategist"),
                   user_answers |-> dumps_user_answers(run.user_answers)]
      [] k = 3 -> [idea |-> run.idea,
                   architect_analysis |-> last_analysis(run, "architect")]
      [] k = 4 -> [idea |-> run.idea,
                   architect_analysis |-> last_analysis(run, "architect"),
                   ux_writer_analysis |-> last_analysis(run, "ux_writer")]
      [] k = 5 -> [conversation_history |-> format_conversation_history(run),
                   prd_template |-> get_prd_template]

\* what an injected llm_client (the tests' mock) hands back: any text, or an
\* exception of its own
GenErrors == {"RuntimeError", "TimeoutError"}

MockJsonCompact == <<"[","1",",","2","]">>
MockJsonScalar == <<" ","7">>
MockNotJson == <<"[","1",",">>
MockPlain == <<"o","k">>

MockTexts(agent_name) ==
    IF agent_name = "mockup_designer"
    THEN {MockJsonCompact, MockJsonScalar, MockNotJson}
    ELSE {MockPlain}

mock_generate(agent_name) ==
    { TextResult(t) : t \in MockTexts(agent_name) }
    \cup { RaiseResult(e) : e \in GenErrors }

\* a stub client whose answers depend on the calls made before: after the
\* second call of a pipeline it hands the canned response back as it is (the
\* variant C17 is tested against)
generate_with_history(prompt, agent_name) ==
    CASE cfg.backend = "mock" -> mock_generate(agent_name)
      [] cfg.backend = "stub" ->
            { IF \E r \in RunIds : Len(calls[r]) >= 2
              THEN TextResult(get_stub_response(agent_name))
              ELSE stub_generate(prompt, agent_name) }
      [] cfg.backend = "autogen" -> { autogen_generate(prompt, agent_name, cfg.remote) }

\* await self.llm_client.generate(prompt, agent_name): the results the
\* client the Orchestrator holds can hand back
generate(prompt, agent_name) ==
    CASE cfg.backend = "mock" -> mock_generate(agent_name)
      [] cfg.backend = "stub" -> { stub_generate(prompt, agent_name) }
      [] cfg.backend = "autogen" -> { autogen_generate(prompt, agent_name, cfg.remote) }

\* the mockup step without the re-serialization (the variant C8 is tested against)
mockup_artifact_raw(response) == [raised |-> FALSE, content |-> response]

\* the mockup step without its except clause (the variant C9 is tested against)
mockup_artifact_uncaught(response) ==
    LET mockup_data == JsonLoads(response)
    IN  IF mockup_data # DecodeError
        THEN [raised |-> FALSE, content |-> JsonDumps(mockup_data)]
        ELSE [raised |-> TRUE, content |-> response]

\* _run_mockup_designer, lines 184-192: what is handed to save_artifact, or
\* the exception that leaves the try statement
mockup_artifact(response) ==
    CHOOSE handed \in
        { IF mockup_data # DecodeError
          THEN [raised |-> FALSE, content |-> JsonDumps(mockup_data)]
          ELSE [raised |-> FALSE, content |-> response]   \* except json.JSONDecodeError
            : mockup_data \in {JsonLoads(response)} } : TRUE

\* what the rendering sink can do: write the document and return True, return
\* False, or raise
PdfOutcomes == {"rendered", "failed", "raised"}

\* _generate_pdf without its try statement (the variant C10 is tested against)
generate_pdf_unguarded(sink) == sink = "raised"

\* _generate_pdf: whether an exception leaves it (lines 246-255)
generate_pdf_raises(sink) == FALSE

\* _save_conversation_artifact: the conversation_data dictionary
conversation_data(run) ==
    [run_id |-> run.id, idea |-> run.idea, status |-> run.status,
     created_at |-> run.created_at,
     completed_at |-> run.completed_at,
     messages |-> run.messages,
     user_answers |-> run.user_answers, assumptions |-> run.assumptions,
     artifacts |-> run.artifacts]

RECURSIVE SumOver(_, _)
SumOver(f, ids) ==
    IF ids = {} THEN 0
    ELSE LET r == CHOOSE i \in ids : TRUE IN f[r] + SumOver(f, ids \ {r})

\* the run_agents calls so far that found their Run
Invocations == SumOver(inv, RunIds)

\* run_agents, lines 29-31: no Run for the id
run_agents_not_found(r) ==
    /\ pc[r] = "idle"
    /\ get_run(r) = NoRun
    /\ outcome' = [outcome EXCEPT ![r] = "raised"]
    /\ exc' = [exc EXCEPT ![r] = "ValueError"]
    /\ UNCHANGED <<cfg, down, clock, call, ret, seen, disk, cache, files, pc, stage, resp, inv, startStatus,
                   calls, pdfResult, updFailed, writeFailures, startLen, gen>>

\* run_agents, lines 29-35: load the Run, set it running, persist
run_agents_start(r) ==
    /\ pc[r] = "idle"
    /\ get_run(r) # NoRun
    /\ Invocations < MaxInvocations
    /\ cfg.reruns \/ inv[r] = 0
    /\ \E ok \in StoreOutcomes :
         LET run == update_status(get_run(r), "running", inv[r] + 1)
         IN  /\ cache' = [cache EXCEPT ![r] = run]
             /\ disk' = update_run(run, ok)
             /\ updFailed' = [updFailed EXCEPT ![r] = FALSE]
             /\ writeFailures' = IF ok THEN writeFailures ELSE writeFailures + 1
    /\ inv' = [inv EXCEPT ![r] = @ + 1]
    /\ startStatus' = [startStatus EXCEPT ![r] = get_run(r).status]
    /\ startLen' = [startLen EXCEPT ![r] = Len(get_run(r).messages)]
    /\ pc' = [pc EXCEPT ![r] = "generate"]
    /\ stage' = [stage EXCEPT ![r] = 1]
    /\ outcome' = [outcome EXCEPT ![r] = "none"]
    /\ exc' = [exc EXCEPT ![r] = "none"]
    /\ calls' = [calls EXCEPT ![r] = <<>>]
    /\ pdfResult' = [pdfResult EXCEPT ![r] = "none"]
    /\ UNCHANGED <<cfg, down, clock, call, ret, seen, files, resp, gen>>

\* _run_<stage>: build the prompt and await the generation call
stage_generate(r) ==
    /\ pc[r] = "generate"
    /\ \E agent \in {StageNames[stage[r]]} :
         \E prompt \in {get_agent_prompt(agent, stage_context(cache[r], stage[r]))} :
           \E res \in generate(prompt, agent) :
             /\ calls' = [calls EXCEPT ![r] =
                            Append(@, [agent |-> agent,
                                       client |-> cfg.backend,
                                       prompt |-> IF cfg.llm_client = NoClient
                                                  THEN prompt
                                                  ELSE <<>>,
                                       result |-> res,
                                       raised |-> IF res.kind = "raise" THEN res.exc
                                                  ELSE "none"])]
             /\ IF res.kind = "raise"
                THEN /\ exc' = [exc EXCEPT ![r] = res.exc]
                     /\ pc' = [pc EXCEPT ![r] = "except"]
                     /\ UNCHANGED resp
                ELSE /\ resp' = [resp EXCEPT ![r] =
                                   [result |-> res, prompt_length |-> Len(prompt)]]
                     /\ pc' = [pc EXCEPT ![r] = "add_message"]
                     /\ UNCHANGED exc
    /\ UNCHANGED <<cfg, down, clock, call, ret, seen, disk, cache, files, stage, outcome, inv, startStatus,
                   pdfResult, updFailed, writeFailures, startLen, gen>>

\* _run_<stage>: run.add_message(role, content=response, step, metadata)
stage_add_message(r) ==
    /\ pc[r] = "add_message"
    /\ IF MessageValid(resp[r].result)
       THEN /\ cache' = [cache EXCEPT ![r] =
                           add_message(@, StageNames[stage[r]], resp[r].result.text,
                                       stage[r],
                                       [agent |-> StageNames[stage[r]],
                                        prompt_length |-> resp[r].prompt_length])]
            /\ pc' = [pc EXCEPT ![r] =
                         CASE stage[r] = 4 -> "save_mockup"
                           [] stage[r] = 5 -> "save_prd"
                           [] OTHER -> "update_run"]
            /\ UNCHANGED exc
       ELSE /\ exc' = [exc EXCEPT ![r] = "ValidationError"]
            /\ pc' = [pc EXCEPT ![r] = "except"]
            /\ UNCHANGED cache
    /\ resp' = [resp EXCEPT ![r] = NoResp]
    /\ UNCHANGED <<cfg, down, clock, call, ret, seen, disk, files, stage, outcome, inv, startStatus, calls,
                   pdfResult, updFailed, writeFailures, startLen, gen>>

\* the `response` of the stage in hand, once its message is appended
Response(r) == cache[r].messages[Len(cache[r].messages)].content

\* _run_mockup_designer, lines 184-192: save mockup.json
save_mockup(r) ==
    /\ pc[r] = "save_mockup"
    /\ LET handed == mockup_artifact(Response(r))
       IN  IF handed.raised
           THEN /\ exc' = [exc EXCEPT ![r] = "JSONDecodeError"]
                /\ pc' = [pc EXCEPT ![r] = "except"]
                /\ UNCHANGED <<files, writeFailures>>
           ELSE /\ \E ok \in StoreOutcomes :
                     /\ files' = save_artifact(r, "mockup_json", TextFile(handed.content), ok)
                     /\ writeFailures' = IF ok THEN writeFailures ELSE writeFailures + 1
                /\ pc' = [pc EXCEPT ![r] = "update_run"]
                /\ UNCHANGED exc
    /\ UNCHANGED <<cfg, down, clock, call, ret, seen, disk, cache, stage, resp, outcome, inv, startStatus, calls,
                   pdfResult, updFailed, startLen, gen>>

\* _run_synthesizer, line 226: save PRD.md
save_prd(r) ==
    /\ pc[r] = "save_prd"
    /\ \E ok \in StoreOutcomes :
         /\ files' = save_artifact(r, "prd_markdown", TextFile(Response(r)), ok)
         /\ writeFailures' = IF ok THEN writeFailures ELSE writeFailures + 1
    /\ pc' = [pc EXCEPT ![r] = "generate_pdf"]
    /\ UNCHANGED <<cfg, down, clock, call, ret, seen, disk, cache, stage, resp, exc, outcome, inv, startStatus, calls,
                   pdfResult, updFailed, startLen, gen>>

\* _generate_pdf pointing the prd_pdf entry of the Run at the placeholder text
\* file when the sink did not render (the variant C35 is tested against)
generate_pdf_repointing(r) ==
    /\ pc[r] = "generate_pdf"
    /\ \E sink \in PdfOutcomes :
         /\ pdfResult' = [pdfResult EXCEPT ![r] = sink]
         /\ files' = IF sink = "rendered"
                     THEN [files EXCEPT ![r]["prd_pdf"] = [kind |-> "pdf", text |-> Response(r)]]
                     ELSE files
         /\ cache' = IF sink = "rendered" THEN cache
                     ELSE [cache EXCEPT ![r].artifacts["prd_pdf"].file = "PRD.txt"]
    /\ pc' = [pc EXCEPT ![r] = "update_run"]
    /\ UNCHANGED <<cfg, down, clock, call, ret, seen, disk, stage, resp, exc, outcome, inv,
                   startStatus, calls, updFailed, writeFailures, startLen, gen>>

\* _run_synthesizer, line 229, and _generate_pdf
generate_pdf(r) ==
    /\ pc[r] = "generate_pdf"
    /\ \E sink \in PdfOutcomes :
         /\ pdfResult' = [pdfResult EXCEPT ![r] = sink]
         /\ files' = IF sink = "rendered" /\ get_artifact_path(cache[r], "prd_pdf").file # ""
                     THEN [files EXCEPT ![r]["prd_pdf"] = [kind |-> "pdf", text |-> Response(r)]]
                     ELSE files
         /\ IF generate_pdf_raises(sink)
            THEN /\ exc' = [exc EXCEPT ![r] = "RenderError"]
                 /\ pc' = [pc EXCEPT ![r] = "except"]
            ELSE /\ pc' = [pc EXCEPT ![r] = "update_run"]
                 /\ UNCHANGED exc
    /\ UNCHANGED <<cfg, down, clock, call, ret, seen, disk, cache, stage, resp, outcome, inv, startStatus, calls,
                   updFailed, writeFailures, startLen, gen>>

\* _run_<stage>: self.storage.update_run(run), the last statement of a stage
stage_update_run(r) ==
    /\ pc[r] = "update_run"
    /\ \E ok \in StoreOutcomes :
         /\ disk' = update_run(cache[r], ok)
         /\ updFailed' = [updFailed EXCEPT ![r] = @ \/ ~ok]
         /\ writeFailures' = IF ok THEN writeFailures ELSE writeFailures + 1
    /\ IF stage[r] = 5
       THEN /\ pc' = [pc EXCEPT ![r] = "complete"]
            /\ UNCHANGED stage
       ELSE /\ pc' = [pc EXCEPT ![r] = "generate"]
            /\ stage' = [stage EXCEPT ![r] = @ + 1]
    /\ UNCHANGED <<cfg, down, clock, call, ret, seen, cache, files, resp, exc, outcome, inv, startStatus, calls,
                   pdfResult, startLen, gen>>

\* run_agents, lines 54-55: set the Run completed, persist
run_agents_complete(r) ==
    /\ pc[r] = "complete"
    /\ \E ok \in StoreOutcomes :
         LET run == update_status(cache[r], "completed", inv[r])
         IN  /\ cache' = [cache EXCEPT ![r] = run]
             /\ disk' = update_run(run, ok)
             /\ writeFailures' = IF ok THEN writeFailures ELSE writeFailures + 1
    /\ pc' = [pc EXCEPT ![r] = "save_conversation"]
    /\ UNCHANGED <<cfg, down, clock, call, ret, seen, files, stage, resp, exc, outcome, inv, startStatus, calls,
                   pdfResult, updFailed, startLen, gen>>

\* run_agents, lines 58-61: save the conversation snapshot, return the Run
save_conversation_artifact(r) ==
    /\ pc[r] = "save_conversation"
    /\ \E ok \in StoreOutcomes :
         /\ files' = save_artifact(r, "conversation", JsonFile(conversation_data(cache[r])), ok)
         /\ writeFailures' = IF ok THEN writeFailures ELSE writeFailures + 1
    /\ outcome' = [outcome EXCEPT ![r] = "returned"]
    /\ pc' = [pc EXCEPT ![r] = "idle"]
    /\ UNCHANGED <<cfg, down, clock, call, ret, seen, disk, cache, stage, resp, exc, inv, startStatus, calls,
                   pdfResult, updFailed, startLen, gen>>

\* the except clause without its update_run (the variant C3 is tested against)
run_agents_except_unpersisted(r) ==
    /\ pc[r] = "except"
    /\ cache' = [cache EXCEPT ![r] = update_status(@, "failed", inv[r])]
    /\ outcome' = [outcome EXCEPT ![r] = "raised"]
    /\ pc' = [pc EXCEPT ![r] = "idle"]
    /\ UNCHANGED <<cfg, down, clock, call, ret, seen, disk, files, stage, resp, exc, inv, startStatus, calls, pdfResult,
                   updFailed, writeFailures, startLen, gen>>

\* an except clause that only re-raises: the Run keeps the status it had (the
\* variant C21 is tested against)
run_agents_except_reraise_only(r) ==
    /\ pc[r] = "except"
    /\ outcome' = [outcome EXCEPT ![r] = "raised"]
    /\ pc' = [pc EXCEPT ![r] = "idle"]
    /\ UNCHANGED <<cfg, down, clock, call, ret, seen, disk, cache, files, stage, resp, exc, inv, startStatus, calls,
                   pdfResult, updFailed, writeFailures, startLen, gen>>

\* run_agents, lines 63-67: set the Run failed, persist, re-raise
run_agents_except(r) ==
    /\ pc[r] = "except"
    /\ \E ok \in StoreOutcomes :
         LET run == update_status(cache[r], "failed", inv[r])
         IN  /\ cache' = [cache EXCEPT ![r] = run]
             /\ disk' = update_run(run, ok)
             /\ writeFailures' = IF ok THEN writeFailures ELSE writeFailures + 1
    /\ outcome' = [outcome EXCEPT ![r] = "raised"]
    /\ pc' = [pc EXCEPT ![r] = "idle"]
    /\ UNCHANGED <<cfg, down, clock, call, ret, seen, files, stage, resp, exc, inv, startStatus, calls, pdfResult,
                   updFailed, startLen, gen>>

(***************************************************************************)
(* The API (backend/app/api/runs.py).                                      *)
(***************************************************************************)
\* the classes of the exceptions run_agents raises; all derive from Exception
ExceptionClasses ==
    {"ValueError", "ValidationError", "JSONDecodeError", "RenderError"} \cup GenErrors

\* run_agents_background without its except clause (the variant C27 is tested
\* against)
run_agents_background_uncaught(ended, e) == ended

\* run_agents_background: how the background task ends when its run_agents
\* call ended as given, with the exception e if it raised: `except Exception`
\* logs the exception and the function returns
run_agents_background(ended, e) ==
    IF ended = "raised" /\ e \in ExceptionClasses THEN "returned" ELSE ended

\* nothing read yet
NotRead == [id |-> "unread"]

\* tasks that could be interrupted at any statement, as threads are (the
\* variant C20 is tested against)
SuspendedAnywhere(r) == r \in RunIds

\* the run_agents task of r is not executing: it has not started, it has
\* ended, or it waits in `await self.llm_client.generate(...)`, the only
\* await of the pipeline
Suspended(r) == pc[r] \in {"idle", "generate"}

\* GET /runs/{run_id}: storage.get_run(run_id), then run.dict() or the 404;
\* the handler runs on the event loop of the run_agents tasks, so while none
\* of them executes; get_run keeps the Run it loaded in the cache
api_get_run(r) ==
    /\ cfg.reader
    /\ \A o \in RunIds : Suspended(o)
    /\ LET run == get_run(r)
       IN  /\ cache' = IF run = NoRun THEN cache ELSE [cache EXCEPT ![r] = run]
           /\ seen' = [seen EXCEPT ![r] = run]
    /\ UNCHANGED <<cfg, down, clock, call, ret, disk, files, pc, stage, resp, exc, outcome, inv, startStatus,
                   calls, startLen, pdfResult, updFailed, writeFailures, gen>>

(***************************************************************************)
(* Direct calls of the two generation clients, for the claims about        *)
(* generate as a function of (prompt, agent, remote reply).                *)
(***************************************************************************)
\* prompts of the strategist stage, and texts with keywords in several
\* spellings and combinations
Prompts ==
    { get_agent_prompt("strategist",
                       [idea |-> i, max_questions |-> DigitText(max_strategist_questions)]) :
        i \in Ideas }
    \cup { <<"G","Y","M">>,
           <<"m","y"," ","B","u","d","g","e","t">>,
           <<"r","e","l","a","x">>,
           <<"t","o","d","o"," ","g","y","m">>,
           <<"t","e","a","m"," ","m","o","n","e","y">>,
           <<"g","y">>,
           <<"a"," ","w","o","r","k","o","u","t">>,
           <<"W","o","r","k","o","u","t"," ","b","a","n","k","i","n","g">>,
           <<>> }

\* the responses handed to _apply_keyword_replacement directly: the canned
\* response of the agent, a text with every token, a text with a keyword
Responses(agent_name) ==
    { get_stub_response(agent_name),
      Placeholders[1] \o Placeholders[2] \o <<" ">> \o Placeholders[3] \o Placeholders[4]
          \o <<" ">> \o Placeholders[6] \o Placeholders[5] \o Placeholders[5],
      <<"g","y","m"," ">> \o Placeholders[5] }

\* the arguments of a call that is still to be made
PendingCall(prompt, agent_name, reply, response) ==
    [prompt |-> prompt, agent |-> agent_name, reply |-> reply, response |-> response,
     called |-> FALSE]

\* generate(prompt, agent) on a StubLLMClient and on an AutoGenLLMClient whose
\* remote service answers with reply, and _apply_keyword_replacement(response,
\* prompt) on both
generate_call ==
    /\ gen # NoCall
    /\ ~gen.called
    /\ gen' = [prompt |-> gen.prompt, agent |-> gen.agent, reply |-> gen.reply,
               response |-> gen.response,
               called |-> TRUE,
               replaced |-> apply_keyword_replacement(gen.response, gen.prompt),
               autogen_replaced |->
                   autogen_apply_keyword_replacement(gen.response, gen.prompt),
               stub |-> stub_generate(gen.prompt, gen.agent),
               autogen |-> autogen_generate(gen.prompt, gen.agent, gen.reply)]
    /\ UNCHANGED <<cfg, down, clock, call, ret, seen, disk, cache, files, pc, stage, resp, exc, outcome, inv,
                   startStatus, calls, startLen, pdfResult, updFailed, writeFailures>>

\* the Run after the stages 1..k executed on it alone with the stub client
RECURSIVE AloneAfter(_, _)
AloneAfter(run, k) ==
    IF k = 0 THEN run
    ELSE LET before == AloneAfter(run, k - 1)
             agent == StageNames[k]
             prompt == get_agent_prompt(agent, stage_context(before, k))
         IN  add_message(before, agent, stub_generate(prompt, agent).text, k,
                         [agent |-> agent, prompt_length |-> Len(prompt)])


(***************************************************************************)
(* Direct calls of the StorageService, for the claims about the store as   *)
(* a service: one call is observed in a behaviour, after Runs were created *)
(* and read.                                                               *)
(***************************************************************************)
\* the Run a pipeline that executed alone with the stub client made of run and
\* completed at the time now
CompletedAlone(run, now) ==
    update_status(AloneAfter(update_status(run, "running", now), 5), "completed", now)

\* the run.json an earlier process of the service can have left for the id r:
\* none, the one of a Run create_run made at the time 0 or 1, the one of such
\* a Run after a pipeline completed it
StoredBefore(r) ==
    {NoRun}
    \cup { save_run(NewRun(r, IdeaGym, t)) : t \in 0..1 }
    \cup { save_run(CompletedAlone(NewRun(r, IdeaGym, t), 1)) : t \in 0..1 }

\* the artifact files the pipeline of the stored Run left
StoredFiles(stored) ==
    IF stored = NoRun \/ stored.status # "completed"
    THEN [t \in ArtifactTypes |-> NoFile]
    ELSE [t \in ArtifactTypes |->
            CASE t = "mockup_json" ->
                     TextFile(mockup_artifact(stored.messages[4].content).content)
              [] t = "prd_markdown" -> TextFile(stored.messages[5].content)
              [] t = "conversation" -> JsonFile(conversation_data(load_run(stored)))
              [] OTHER -> NoFile]

\* datetime.utcnow() has advanced
tick ==
    /\ clock < MaxClock
    /\ clock' = clock + 1
    /\ UNCHANGED <<cfg, down, call, ret, seen, disk, cache, files, pc, stage, resp, exc, outcome, inv,
                   startStatus, calls, startLen, pdfResult, updFailed, writeFailures, gen>>

\* storage.update_run(run) on a Run object the caller holds for the id r: the
\* cached one, or the one create_run returned
call_update_run(r) ==
    /\ ~call.called
    /\ \E run \in {cache[r], ret[r]} \ {NoRun}, ok \in StoreOutcomes :
         /\ disk' = update_run(run, ok)
         /\ cache' = IF ok THEN [cache EXCEPT ![r] = run] ELSE cache
         /\ writeFailures' = IF ok THEN writeFailures ELSE writeFailures + 1
         /\ call' = [op |-> "update_run", called |-> TRUE, id |-> r, run |-> run,
                     returned |-> ok]
    /\ UNCHANGED <<cfg, down, clock, ret, seen, files, pc, stage, resp, exc, outcome, inv,
                   startStatus, calls, startLen, pdfResult, updFailed, gen>>

\* the contents handed to save_artifact directly: JSON in a compact spelling,
\* JSON with a blank before it, text that is no JSON
ArtifactContents == {MockJsonCompact, MockJsonScalar, MockNotJson, MockPlain}

\* storage.save_artifact(run_id, artifact_type, content) with a str content,
\* for the five artifact types and a type no Run has a path for; its get_run
\* keeps the Run it loaded in the cache
call_save_artifact(r, artifact_type, content) ==
    /\ ~call.called
    /\ \E ok \in StoreOutcomes, run \in {get_run(r)} :
         /\ files' = save_artifact(r, artifact_type, TextFile(content), ok)
         /\ cache' = IF run = NoRun THEN cache ELSE [cache EXCEPT ![r] = run]
         /\ writeFailures' = IF ok THEN writeFailures ELSE writeFailures + 1
         /\ call' = [op |-> "save_artifact", called |-> TRUE, id |-> r,
                     type |-> artifact_type, content |-> content,
                     returned |-> save_artifact_returns(r, artifact_type,
                                                        TextFile(content), ok)]
    /\ UNCHANGED <<cfg, down, clock, ret, seen, disk, pc, stage, resp, exc, outcome, inv,
                   startStatus, calls, startLen, pdfResult, updFailed, gen>>

\* storage.list_runs(limit, offset), as GET /runs calls it with the integers of
\* the query (runs.py lines 136-140 check neither); get_run keeps every Run
\* it loaded in the cache
call_list_runs(limit, offset) ==
    /\ ~call.called
    /\ \E order \in Orders({ r \in RunIds : disk[r] # NoRun }) :
         call' = [op |-> "list_runs", called |-> TRUE, limit |-> limit, offset |-> offset,
                  order |-> order, returned |-> list_runs(order, limit, offset)]
    /\ cache' = [r \in RunIds |-> IF disk[r] # NoRun THEN get_run(r) ELSE cache[r]]
    /\ UNCHANGED <<cfg, down, clock, ret, seen, disk, files, pc, stage, resp, exc, outcome, inv,
                   startStatus, calls, startLen, pdfResult, updFailed, writeFailures, gen>>

(***************************************************************************)
(* PDFGenerator (backend/services/pdf_generator.py), called directly.      *)
(* What a library does is an input: it works, its import raises            *)
(* ImportError, or it raises another Exception.                            *)
(***************************************************************************)
GeneratorTypes == {"reportlab", "html", "latex"}
LibraryOutcomes == {"works", "ImportError", "Exception"}

\* str(Exception)
StrException == <<"<","c","l","a","s","s"," ","'","E","x","c","e","p","t","i","o","n","'",">">>

\* the first line _create_placeholder_pdf writes
PlaceholderTitle ==
    <<"P","D","F"," ","G","e","n","e","r","a","t","i","o","n"," ",
      "P","l","a","c","e","h","o","l","d","e","r",NL>>

\* what a generate_from_markdown call leaves: whether an exception left the
\* call, the value returned, the file at output_path, the file at the path with
\* .txt for .pdf
Rendering(ret_value, pdf, txt) == [raised |-> FALSE, returned |-> ret_value, pdf |-> pdf, txt |-> txt]

\* _create_placeholder_pdf: the text file written at output_path, renamed to
\* .txt unless the generator type is reportlab; False when the write raises
create_placeholder_pdf(generator_type, markdown_content, write_ok) ==
    IF ~write_ok THEN Rendering(FALSE, NoFile, NoFile)
    ELSE IF generator_type # "reportlab"
            /\ ~Contains(StrException, <<"w","e","a","s","y","p","r","i","n","t">>)
         THEN Rendering(FALSE, NoFile, TextFile(PlaceholderTitle \o markdown_content))
         ELSE Rendering(TRUE, TextFile(PlaceholderTitle \o markdown_content), NoFile)

\* _generate_with_html: the document WeasyPrint writes, else the placeholder
generate_with_html(generator_type, markdown_content, weasyprint, write_ok) ==
    IF weasyprint = "works"
    THEN Rendering(TRUE, [kind |-> "pdf", text |-> markdown_content], NoFile)
    ELSE create_placeholder_pdf(generator_type, markdown_content, write_ok)

\* _generate_with_reportlab: the document ReportLab builds; on ImportError
\* the HTML method; on another Exception False, and nothing written
generate_with_reportlab(generator_type, markdown_content, reportlab, weasyprint, write_ok) ==
    CASE reportlab = "works" ->
             Rendering(TRUE, [kind |-> "pdf", text |-> markdown_content], NoFile)
      [] reportlab = "ImportError" ->
             generate_with_html(generator_type, markdown_content, weasyprint, write_ok)
      [] OTHER -> Rendering(FALSE, NoFile, NoFile)

\* generate_from_markdown: reportlab, or the HTML method for html and for an
\* unknown type; the methods raise no Exception, so the except clause of
\* lines 32-35 is not entered
generate_from_markdown(generator_type, markdown_content, reportlab, weasyprint, write_ok) ==
    IF generator_type = "reportlab"
    THEN generate_with_reportlab(generator_type, markdown_content, reportlab, weasyprint,
                                 write_ok)
    ELSE generate_with_html(generator_type, markdown_content, weasyprint, write_ok)

\* the markdown texts handed to the generator
Markdowns == {<<"#"," ","P","R","D">>, MockPlain, <<>>}

\* PDFGenerator(generator_type).generate_from_markdown(markdown, output_path)
call_generate_from_markdown(generator_type, markdown_content, reportlab, weasyprint) ==
    /\ ~call.called
    /\ \E write_ok \in BOOLEAN :
         call' = [op |-> "generate_from_markdown", called |-> TRUE,
                  generator_type |-> generator_type, markdown |-> markdown_content,
                  reportlab |-> reportlab, weasyprint |-> weasyprint,
                  write_ok |-> write_ok,
                  result |-> generate_from_markdown(generator_type, markdown_content,
                                                    reportlab, weasyprint, write_ok)]
    /\ UNCHANGED <<cfg, down, clock, ret, seen, disk, cache, files, pc, stage, resp, exc, outcome,
                   inv, startStatus, calls, startLen, pdfResult, updFailed, writeFailures,
                   gen>>

(***************************************************************************)
(* A crash of the process.                                                 *)
(***************************************************************************)
\* run.json after a crash inside _save_run: open(run_path, 'w') has emptied
\* the file and json.dump has written a part of the text, or none; get_run
\* cannot load it
TornFile == [id |-> "torn"]

\* the places of a task whose next statement is storage.update_run(run)
WritingRun == {"update_run", "complete", "except"}

\* the process dies: between two statements of the tasks, or inside the
\* _save_run of the one task that is executing (the tasks share one thread);
\* the variables other than disk keep what the memory held
crash ==
    /\ ~down
    /\ down' = TRUE
    /\ \E torn \in {{}} \cup { {r} : r \in { x \in RunIds : pc[x] \in WritingRun } } :
         disk' = [r \in RunIds |-> IF r \in torn THEN TornFile ELSE disk[r]]
    /\ UNCHANGED <<cfg, clock, call, ret, seen, cache, files, pc, stage, resp, exc, outcome, inv,
                   startStatus, calls, startLen, pdfResult, updFailed, writeFailures, gen>>

(***************************************************************************)
(* Specifications.                                                         *)
(***************************************************************************)
InitState ==
    /\ disk = [r \in RunIds |-> NoRun]
    /\ cache = [r \in RunIds |-> NoRun]
    /\ files = [r \in RunIds |-> [t \in ArtifactTypes |-> NoFile]]
    /\ pc = [r \in RunIds |-> "idle"]
    /\ stage = [r \in RunIds |-> 0]
    /\ resp = [r \in RunIds |-> NoResp]
    /\ exc = [r \in RunIds |-> "none"]
    /\ outcome = [r \in RunIds |-> "none"]
    /\ inv = [r \in RunIds |-> 0]
    /\ startStatus = [r \in RunIds |-> "none"]
    /\ calls = [r \in RunIds |-> <<>>]
    /\ startLen = [r \in RunIds |-> 0]
    /\ pdfResult = [r \in RunIds |-> "none"]
    /\ updFailed = [r \in RunIds |-> FALSE]
    /\ writeFailures = 0
    /\ seen = [r \in RunIds |-> NotRead]
    /\ clock = 0
    /\ ret = [r \in RunIds |-> NoRun]
    /\ call = NoServiceCall
    /\ down = FALSE

\* the scenario of an Orchestrator built with the argument llm_client under
\* the settings openai_api_key, where `import autogen` does import_outcome
Scenario(llm_client, openai_api_key, import_outcome, remote, faults, ids, ideas, reader) ==
    [backend |-> orchestrator_llm_client(llm_client, openai_api_key, import_outcome),
     llm_client |-> llm_client, key |-> openai_api_key, autogen_import |-> import_outcome,
     remote |-> remote, faults |-> faults, ids |-> ids, ideas |-> ideas,
     reader |-> reader, reruns |-> TRUE]

\* the settings under which get_llm_client returns a client of the kind
SettingsFor(kind) ==
    { s \in ApiKeys \X ImportOutcomes : get_llm_client(s[1], s[2]) = kind }

\* the disk never fails
Init ==
    /\ cfg \in { Scenario("mock", PlaceholderKey, "imported", NoRemote, FALSE,
                           RunIds, {IdeaGym}, FALSE) }
               \cup { Scenario(NoClient, s[1], s[2], NoRemote, FALSE,
                               IF s = <<PlaceholderKey, "imported">> THEN RunIds
                                                                      ELSE {"r1"},
                               Ideas, s = <<"", "imported">>) :
                        s \in SettingsFor("stub") }
               \cup { Scenario(NoClient, s[1], s[2], reply, FALSE, {"r1"}, Ideas, FALSE) :
                        s \in SettingsFor("autogen"), reply \in RemoteReplies }
    /\ gen = NoCall
    /\ InitState

\* writes to the disk may fail
InitFaults ==
    /\ cfg \in { Scenario("mock", PlaceholderKey, "imported", NoRemote, TRUE,
                           {"r1"}, {IdeaGym}, FALSE) }
    /\ gen = NoCall
    /\ InitState

\* the steps of create_run and of the run_agents tasks
Pipeline ==
    \/ \E r \in RunIds, idea \in Ideas : create_run(r, idea)
    \/ \E r \in RunIds : run_agents_not_found(r)
    \/ \E r \in RunIds : run_agents_start(r)
    \/ \E r \in RunIds : stage_generate(r)
    \/ \E r \in RunIds : stage_add_message(r)
    \/ \E r \in RunIds : save_mockup(r)
    \/ \E r \in RunIds : save_prd(r)
    \/ \E r \in RunIds : generate_pdf(r)
    \/ \E r \in RunIds : stage_update_run(r)
    \/ \E r \in RunIds : run_agents_complete(r)
    \/ \E r \in RunIds : save_conversation_artifact(r)
    \/ \E r \in RunIds : run_agents_except(r)

Next ==
    \/ Pipeline
    \/ \E r \in RunIds : api_get_run(r)

Spec == Init /\ [][Next]_vars

\* the clients called directly
InitBackend ==
    /\ cfg \in { Scenario(NoClient, PlaceholderKey, "imported", NoRemote, FALSE,
                           {}, {}, FALSE) }
    /\ gen \in UNION { { PendingCall(prompt, StageNames[k], reply, response) :
                            prompt \in Prompts, reply \in RemoteReplies,
                            response \in Responses(StageNames[k]) } :
                        k \in 1..Len(StageNames) }
    /\ InitState

NextBackend == generate_call

SpecBackend == InitBackend /\ [][NextBackend]_vars

SpecFaults == InitFaults /\ [][Pipeline]_vars

\* a step of the run_agents task of r after the call has loaded the Run
TaskStep(r) ==
    \/ stage_generate(r)
    \/ stage_add_message(r)
    \/ save_mockup(r)
    \/ save_prd(r)
    \/ generate_pdf(r)
    \/ stage_update_run(r)
    \/ run_agents_complete(r)
    \/ save_conversation_artifact(r)
    \/ run_agents_except(r)

\* the use the API makes of the Orchestrator: POST /runs creates a Run and
\* schedules one run_agents_background task for it (runs.py lines 27-30), so
\* run_agents is called once for each Run; two Runs, a client that answers or
\* raises
InitLive ==
    /\ cfg \in { [Scenario("mock", PlaceholderKey, "imported", NoRemote, FALSE,
                            RunIds, {IdeaGym}, FALSE) EXCEPT !.reruns = FALSE] }
    /\ gen = NoCall
    /\ InitState

\* every generation call and every call of the store and of the rendering sink
\* returns or raises, and the event loop resumes a task that can go on: a
\* task that has a step to take takes it
SpecLive == InitLive /\ [][Pipeline]_vars /\ \A r \in RunIds : WF_vars(TaskStep(r))

\* the pipelines of SpecLive's scenario, and a crash that ends them
NextCrash ==
    \/ \E r \in RunIds, idea \in Ideas : ~down /\ create_run(r, idea)
    \/ \E r \in RunIds : ~down /\ run_agents_not_found(r)
    \/ \E r \in RunIds : ~down /\ run_agents_start(r)
    \/ \E r \in RunIds : ~down /\ stage_generate(r)
    \/ \E r \in RunIds : ~down /\ stage_add_message(r)
    \/ \E r \in RunIds : ~down /\ save_mockup(r)
    \/ \E r \in RunIds : ~down /\ save_prd(r)
    \/ \E r \in RunIds : ~down /\ generate_pdf(r)
    \/ \E r \in RunIds : ~down /\ stage_update_run(r)
    \/ \E r \in RunIds : ~down /\ run_agents_complete(r)
    \/ \E r \in RunIds : ~down /\ save_conversation_artifact(r)
    \/ \E r \in RunIds : ~down /\ run_agents_except(r)
    \/ crash

SpecCrash == InitLive /\ [][NextCrash]_vars

\* the service after a restart: the run.json files and the artifacts of an
\* earlier process on the disk, nothing cached, the clock past the creation
\* of the stored Runs; the disk fails in some scenarios
InitStore ==
    /\ cfg \in { Scenario("mock", PlaceholderKey, "imported", NoRemote, faults,
                           RunIds, Ideas, TRUE) : faults \in BOOLEAN }
    /\ gen = NoCall
    /\ disk \in [RunIds -> UNION { StoredBefore(r) : r \in RunIds }]
    /\ \A r \in RunIds : disk[r] \in StoredBefore(r)
    /\ cache = [r \in RunIds |-> NoRun]
    /\ files = [r \in RunIds |-> StoredFiles(disk[r])]
    /\ pc = [r \in RunIds |-> "idle"]
    /\ stage = [r \in RunIds |-> 0]
    /\ resp = [r \in RunIds |-> NoResp]
    /\ exc = [r \in RunIds |-> "none"]
    /\ outcome = [r \in RunIds |-> "none"]
    /\ inv = [r \in RunIds |-> 0]
    /\ startStatus = [r \in RunIds |-> "none"]
    /\ calls = [r \in RunIds |-> <<>>]
    /\ startLen = [r \in RunIds |-> 0]
    /\ pdfResult = [r \in RunIds |-> "none"]
    /\ updFailed = [r \in RunIds |-> FALSE]
    /\ writeFailures = 0
    /\ seen = [r \in RunIds |-> NotRead]
    /\ clock = 1
    /\ ret = [r \in RunIds |-> NoRun]
    /\ call = NoServiceCall
    /\ down = FALSE

NextStore ==
    \/ tick
    \/ \E r \in RunIds, idea \in Ideas : create_run(r, idea)
    \/ \E r \in RunIds : api_get_run(r)
    \/ \E r \in RunIds : call_update_run(r)
    \/ \E r \in RunIds, t \in ArtifactTypes \cup {"thumbnail"}, content \in ArtifactContents :
          call_save_artifact(r, t, content)
    \/ \E limit, offset \in -1..MaxWindow : call_list_runs(limit, offset)

SpecStore == InitStore /\ [][NextStore]_vars

\* the generator called directly
InitRender ==
    /\ cfg \in { Scenario("mock", PlaceholderKey, "imported", NoRemote, FALSE,
                           {}, {}, FALSE) }
    /\ gen = NoCall
    /\ InitState

NextRender ==
    \E generator_type \in GeneratorTypes, markdown_content \in Markdowns,
       reportlab \in LibraryOutcomes, weasyprint \in LibraryOutcomes :
        call_generate_from_markdown(generator_type, markdown_content, reportlab, weasyprint)

SpecRender == InitRender /\ [][NextRender]_vars

(***************************************************************************)
(* Claims.                                                                 *)
(***************************************************************************)
Steps(messages) == [i \in 1..Len(messages) |-> messages[i].step]
Roles(messages) == [i \in 1..Len(messages) |-> messages[i].role]

\* the Runs the store holds: the cached objects and the run.json files
StoredRuns(r) == {cache[r], disk[r]} \ {NoRun}

\* the current (or last) run_agents call of r found the Run pending
FreshCall(r) == inv[r] > 0 /\ startStatus[r] = "pending"

\* the generate call of the current run_agents call that raised, if one did
LastCallRaised(r) == calls[r] # <<>> /\ calls[r][Len(calls[r])].raised # "none"

\* messages appended by the current run_agents call
Appended(r) == IF cache[r] = NoRun THEN 0 ELSE Len(cache[r].messages) - startLen[r]

\* C1: a Run whose status is completed has exactly 5 messages, with steps
\* 1..5 and the roles of the five stages, in that order.
C1_CompletedHasFiveMessages ==
    \A r \in RunIds : \A run \in StoredRuns(r) :
        run.status = "completed" =>
            /\ Len(run.messages) = 5
            /\ Steps(run.messages) = <<1, 2, 3, 4, 5>>
            /\ Roles(run.messages) = StageNames

\* C2: completed and failed are terminal: no step takes a Run out of them.
C2_TerminalStatuses ==
    [][\A r \in RunIds :
          (cache[r] # NoRun /\ cache[r].status \in {"completed", "failed"})
              => cache'[r].status = cache[r].status]_vars

\* C3: if the generation call of stage k raises in a run_agents call on a
\* pending Run, the call ends with the Run failed, run.json holding exactly the
\* k-1 messages of steps 1..k-1, and that exception raised to the caller.
C3_GenerationFailure ==
    \A r \in RunIds :
        (FreshCall(r) /\ LastCallRaised(r) /\ pc[r] = "idle") =>
            LET k == Len(calls[r])
            IN  /\ outcome[r] = "raised"
                /\ exc[r] = calls[r][k].raised
                /\ cache[r].status = "failed"
                /\ disk[r].status = "failed"
                /\ Len(disk[r].messages) = k - 1
                /\ Steps(disk[r].messages) = [i \in 1..(k - 1) |-> i]
                /\ disk[r].messages = cache[r].messages

\* C3 witness: the generation call of stage 3 raised; two messages persisted.
C3_Witness ==
    \E r \in RunIds :
        /\ FreshCall(r) /\ LastCallRaised(r) /\ pc[r] = "idle"
        /\ Len(calls[r]) = 3
        /\ calls[r][3].agent = "ux_writer"
        /\ Len(disk[r].messages) = 2
        /\ disk[r].status = "failed"

\* a step of r that is a run_agents call arriving
CallArrives(r) ==
    /\ pc[r] = "idle"
    /\ \/ pc'[r] # "idle"
       \/ outcome'[r] # outcome[r]
       \/ exc'[r] # exc[r]
       \/ inv'[r] # inv[r]
       \/ cache'[r] # cache[r]

\* C4: run_agents for an id the store holds no Run for raises the not-found
\* error; no generation call is made, no Run is created, no stored Run and no
\* artifact changes.
C4_NotFound ==
    [][\A r \in RunIds :
          (disk[r] = NoRun /\ cache[r] = NoRun /\ CallArrives(r)) =>
              /\ outcome'[r] = "raised"
              /\ exc'[r] = "ValueError"
              /\ pc'[r] = "idle"
              /\ UNCHANGED <<disk, cache, files, calls, inv>>]_vars

\* C4 witness: the call was refused for one id while the pipeline of a stored
\* Run is under way.
C4_Witness ==
    \E r, o \in RunIds :
        /\ r # o
        /\ disk[r] = NoRun /\ cache[r] = NoRun
        /\ outcome[r] = "raised" /\ exc[r] = "ValueError"
        /\ cache[o] # NoRun /\ cache[o].status = "running"
        /\ Len(cache[o].messages) = 2

\* C5: with the AutoGen client, whatever the remote service does, generate
\* hands a text to the Orchestrator and no Run ends failed.
C5_RemoteFailureAbsorbed ==
    cfg.backend = "autogen" =>
        \A r \in RunIds :
            /\ pc[r] = "add_message" => resp[r].result.kind = "text"
            /\ \A run \in StoredRuns(r) : run.status # "failed"

\* the remote call failed: it raised, or left no message, or a last message
\* with no content or an empty one
RemoteFailed(reply) ==
    \/ reply.kind = "raise"
    \/ ~reply.present
    \/ reply.messages = <<>>
    \/ LET last == reply.messages[Len(reply.messages)]
       IN  \/ ~last.has_content
           \/ last.content.kind = "none"
           \/ last.content.text = <<>>

\* C6: whenever the remote call fails, the AutoGen client returns what the
\* stub client returns for the same prompt and agent.
C6_FallbackEqualsStub ==
    (gen.called /\ RemoteFailed(gen.reply)) => gen.autogen = gen.stub

\* C7: after the update_run of a stage failed, the Run does not complete and
\* the call does not return normally.
C7_PersistenceFailureFatal ==
    \A r \in RunIds :
        updFailed[r] =>
            /\ cache[r].status # "completed"
            /\ outcome[r] # "returned"

\* the response of stage 4 of the current call, once its message is appended
MockupResponse(r) == cache[r].messages[startLen[r] + 4].content

\* the artifact step of stage 4 of the current call is done
MockupSaved(r) ==
    /\ Appended(r) >= 4
    /\ ~(stage[r] = 4 /\ pc[r] \in {"save_mockup", "except"})

\* C8: once stage 4 saved its artifact, mockup.json holds the canonical
\* re-serialization of the response if the response parses, and the response
\* verbatim if it does not.
C8_MockupArtifact ==
    \A r \in RunIds :
        MockupSaved(r) =>
            LET response == MockupResponse(r)
                parsed == JsonLoads(response)
                saved == files[r]["mockup_json"]
            IN  /\ saved.kind = "text"
                /\ parsed # DecodeError =>
                      /\ saved.text = JsonDumps(parsed)
                      /\ JsonLoads(saved.text) = parsed
                /\ parsed = DecodeError => saved.text = response

\* C8 witness: one Run with a parsing response that is not in canonical form,
\* another with a response that does not parse.
C8_Witness ==
    \E r, o \in RunIds :
        /\ MockupSaved(r) /\ MockupSaved(o)
        /\ JsonLoads(MockupResponse(r)) # DecodeError
        /\ files[r]["mockup_json"].text # MockupResponse(r)
        /\ JsonLoads(MockupResponse(o)) = DecodeError
        /\ files[o]["mockup_json"].text = MockupResponse(o)

\* C9: a stage-4 response that does not parse is not an error: the step-4
\* message is in the Run, the only exception that can follow is one raised by
\* the synthesizer's generation call, and without it the call returns with the
\* Run completed.
C9_UnparsableMockupNotFatal ==
    \A r \in RunIds :
        (Appended(r) >= 4 /\ JsonLoads(MockupResponse(r)) = DecodeError) =>
            /\ cache[r].messages[startLen[r] + 4].step = 4
            /\ cache[r].messages[startLen[r] + 4].role = "mockup_designer"
            /\ (pc[r] = "except" \/ cache[r].status = "failed") =>
                  (LastCallRaised(r) /\ Len(calls[r]) = 5)
            /\ (pc[r] = "idle" /\ ~LastCallRaised(r)) =>
                  /\ outcome[r] = "returned"
                  /\ cache[r].status = "completed"
                  /\ disk[r].status = "completed"
                  /\ Appended(r) = 5

\* C9 witness: the call returned with the Run completed although the stage-4
\* response did not parse.
C9_Witness ==
    \E r \in RunIds :
        /\ Appended(r) = 5
        /\ JsonLoads(MockupResponse(r)) = DecodeError
        /\ pc[r] = "idle"
        /\ outcome[r] = "returned"
        /\ disk[r].status = "completed"

\* C10: when the rendering sink returns failure or raises, no exception
\* reaches run_agents: the step-5 message is persisted and the call returns
\* with the Run completed.
C10_RenderFailureAbsorbed ==
    \A r \in RunIds :
        pdfResult[r] \in {"failed", "raised"} =>
            /\ pc[r] # "except"
            /\ exc[r] = "none"
            /\ pc[r] \in {"complete", "save_conversation", "idle"} =>
                  /\ disk[r].messages = cache[r].messages
                  /\ disk[r].messages[Len(disk[r].messages)].step = 5
            /\ pc[r] = "idle" =>
                  /\ outcome[r] = "returned"
                  /\ cache[r].status = "completed"
                  /\ disk[r].status = "completed"

\* C10 witness: the sink raised and the call returned with the Run completed.
C10_Witness ==
    \E r \in RunIds :
        /\ pdfResult[r] = "raised"
        /\ pc[r] = "idle"
        /\ outcome[r] = "returned"
        /\ disk[r].status = "completed"
        /\ disk[r].messages[Len(disk[r].messages)].step = 5

\* the last run_agents call of r returned to its caller
Returned(r) == pc[r] = "idle" /\ outcome[r] = "returned"

\* C11: whenever a run_agents call ends with the Run completed, completed_at
\* is set and the artifacts prd_markdown, mockup_json and conversation are in
\* the store.
C11_CompletedHasArtifacts ==
    \A r \in RunIds :
        (Returned(r) /\ cache[r].status = "completed") =>
            /\ cache[r].completed_at # NullTime
            /\ \A t \in {"prd_markdown", "mockup_json", "conversation"} :
                  files[r][t] # NoFile

\* a step writes the conversation artifact of r
ConversationWritten(r) == files'[r]["conversation"] # files[r]["conversation"]

\* C12: the conversation snapshot is written only after run.json was written
\* with status completed, and the snapshot has status completed, a completed_at
\* that is not null and exactly the 5 messages of the Run, in append order.
C12_SnapshotAfterCompletion ==
    [][\A r \in RunIds :
          ConversationWritten(r) =>
              LET snapshot == files'[r]["conversation"].data
              IN  /\ disk[r].status = "completed"
                  /\ snapshot.status = "completed"
                  /\ snapshot.completed_at # NullTime
                  /\ Len(snapshot.messages) = 5
                  /\ snapshot.messages = cache[r].messages
                  /\ snapshot.messages = disk[r].messages]_vars

\* C13: completed_at is set exactly once, at the transition into completed:
\* it is null until then, and once set its value never changes.
C13_CompletedAtSetOnce ==
    [][\A r \in RunIds :
          (cache[r] # NoRun /\ cache'[r] # NoRun) =>
              /\ cache[r].completed_at # NullTime =>
                    cache'[r].completed_at = cache[r].completed_at
              /\ cache'[r].completed_at # cache[r].completed_at =>
                    (cache[r].status # "completed" /\ cache'[r].status = "completed")
              /\ cache[r].status \in {"pending", "running"} =>
                    cache[r].completed_at = NullTime]_vars

\* the keyword sets in the order of the branches, and the phrase set of each
\* branch, the else branch last
KeywordSets == <<FitnessKeywords, FinanceKeywords, MeditationKeywords, ProductivityKeywords>>
PhraseSets ==
    <<FitnessPhrases, FinancePhrases, MeditationPhrases, ProductivityPhrases, GenericPhrases>>

\* the keyword occurs in the text, letter case of the text aside
OccursIn(keyword, text) ==
    \E i \in 1..Len(text) :
        /\ i + Len(keyword) - 1 <= Len(text)
        /\ \A j \in 1..Len(keyword) :
              LET c == text[i + j - 1]
              IN  keyword[j] = IF c \in DOMAIN LowerOf THEN LowerOf[c] ELSE c

\* the first keyword set, in priority order, with a keyword in the prompt;
\* 5, the generic set, if there is none
DomainOf(prompt) ==
    LET hits == { d \in 1..Len(KeywordSets) : \E k \in KeywordSets[d] : OccursIn(k, prompt) }
    IN  IF hits = {} THEN Len(PhraseSets)
        ELSE CHOOSE d \in hits : \A e \in hits : d <= e

\* C14: the phrase set applied is chosen by the prompt alone, letter case
\* aside: that of the first of fitness, finance, meditation, productivity
\* with a keyword in the prompt, the generic one if none has.
C14_KeywordPriority ==
    gen.called =>
        gen.replaced = ReplaceAll(gen.response, PhraseSets[DomainOf(gen.prompt)], 1)

\* C14 witness: the prompt has a productivity keyword before a finance one
\* and the response has a fitness keyword; the finance phrases were applied.
C14_Witness ==
    /\ gen.called
    /\ OccursIn(<<"t","e","a","m">>, gen.prompt)
    /\ OccursIn(<<"m","o","n","e","y">>, gen.prompt)
    /\ OccursIn(<<"g","y","m">>, gen.response)
    /\ DomainOf(gen.prompt) = 2
    /\ gen.replaced = ReplaceAll(gen.response, FinancePhrases, 1)
    /\ gen.replaced # ReplaceAll(gen.response, ProductivityPhrases, 1)
    /\ gen.replaced # ReplaceAll(gen.response, FitnessPhrases, 1)

\* the number of places of s where sub stands
Count(s, sub) == Cardinality({ i \in 1..Len(s) : MatchAt(s, sub, i) })

\* no placeholder token stands in s
NoToken(s) == \A i \in 1..Len(Placeholders) : ~Contains(s, Placeholders[i])

\* the direct call handed the canned response of its agent
CannedCall == gen.called /\ gen.response = get_stub_response(gen.agent)

\* C15: for every canned response, with a prompt containing "workout" each
\* [Product] has become "Fitness Tracker" and none of the six tokens is left;
\* with a prompt matching no keyword the tokens are replaced by the generic set.
C15_PlaceholdersReplaced ==
    CannedCall =>
        /\ OccursIn(<<"w","o","r","k","o","u","t">>, gen.prompt) =>
              /\ NoToken(gen.replaced)
              /\ Count(gen.replaced, FitnessPhrases[5])
                    = Count(gen.response, Placeholders[5]) + Count(gen.response, Placeholders[6])
              /\ gen.stub = TextResult(gen.replaced)
        /\ DomainOf(gen.prompt) = Len(PhraseSets) =>
              /\ NoToken(gen.replaced)
              /\ \A i \in 1..Len(Placeholders) :
                    Count(gen.replaced, GenericPhrases[i]) >= Count(gen.response, Placeholders[i])
              /\ gen.replaced = ReplaceAll(gen.response, GenericPhrases, 1)
              /\ gen.stub = TextResult(gen.replaced)

\* C15 witness: a canned response with [Product], a prompt with "Workout" and
\* a finance keyword: "Fitness Tracker" stands where the token stood.
C15_Witness ==
    /\ CannedCall
    /\ OccursIn(<<"w","o","r","k","o","u","t">>, gen.prompt)
    /\ OccursIn(<<"b","a","n","k","i","n","g">>, gen.prompt)
    /\ Count(gen.response, Placeholders[5]) = 1
    /\ Count(gen.replaced, FitnessPhrases[5]) = 1
    /\ NoToken(gen.replaced)

\* C16: StubLLMClient._apply_keyword_replacement and
\* AutoGenLLMClient._apply_keyword_replacement return the same text for every
\* (response, prompt).
C16_SameReplacement ==
    gen.called => gen.autogen_replaced = gen.replaced

\* C16 witness: a prompt of the meditation domain and a response with every
\* token; both copies changed the response, to the same text.
C16_Witness ==
    /\ gen.called
    /\ DomainOf(gen.prompt) = 3
    /\ \A i \in 1..Len(Placeholders) : Contains(gen.response, Placeholders[i])
    /\ gen.replaced # gen.response
    /\ NoToken(gen.autogen_replaced)
    /\ gen.autogen_replaced = gen.replaced

\* the generate calls of the current run_agents calls, as (run id, index)
CallsMade == { c \in RunIds \X (1..5) : c[2] <= Len(calls[c[1]]) }
CallOf(c) == calls[c[1]][c[2]]

C18_BackendSelection ==
    cfg.llm_client = NoClient =>
        /\ cfg.backend = "autogen" <=>
              /\ cfg.key # ""
              /\ cfg.key # PlaceholderKey
              /\ cfg.autogen_import = "imported"
        /\ cfg.backend # "autogen" => cfg.backend = "stub"
        /\ \A c \in CallsMade : CallOf(c).client = cfg.backend

\* C18 witness: a key is configured but the import of autogen fails; the five
\* generation calls of a pipeline were served by the stub client.
C18_Witness ==
    /\ cfg.llm_client = NoClient
    /\ cfg.key \notin {"", PlaceholderKey}
    /\ cfg.autogen_import = "ImportError"
    /\ cfg.backend = "stub"
    /\ Len(calls["r1"]) = 5
    /\ \A k \in 1..5 : calls["r1"][k].client = "stub"

\* a step of the run_agents task of r
PipelineStep(r) == pc'[r] # pc[r]

\* the Run a pipeline executed alone on a new Run r of the idea leaves
AloneRun(r, idea, now) ==
    update_status(AloneAfter(update_status(NewRun(r, idea, clock), "running", now), 5),
                  "completed", now)

\* C19: pipelines of distinct Runs do not interfere: no step of the pipeline
\* of one Run changes run.json, the cached object or the artifacts of another
\* Run, and with the stub client a pipeline on a new Run ends, under every
\* interleaving with the other pipeline, with the status, the messages and
\* the artifacts it has when it executes alone.
C19_NoInterference ==
    [][\A r \in RunIds :
          PipelineStep(r) =>
              /\ \A o \in RunIds \ {r} :
                    /\ disk'[o] = disk[o]
                    /\ cache'[o] = cache[o]
                    /\ files'[o] = files[o]
              /\ (cfg.backend = "stub" /\ FreshCall(r) /\ pc'[r] = "idle") =>
                    LET alone == AloneRun(r, cache[r].idea, inv[r])
                    IN  /\ outcome'[r] = "returned"
                        /\ cache'[r] = alone
                        /\ disk'[r] = save_run(alone)
                        /\ files'[r]["mockup_json"] =
                              TextFile(mockup_artifact(alone.messages[4].content).content)
                        /\ files'[r]["prd_markdown"] = TextFile(alone.messages[5].content)
                        /\ files'[r]["conversation"] = JsonFile(conversation_data(alone))]_vars

\* C19 witness: with the stub client the pipeline of one Run returned with the
\* Run it leaves when alone, while the pipeline of a Run of another idea is
\* between its second and its third stage.
C19_Witness ==
    \E r, o \in RunIds :
        /\ r # o
        /\ cfg.backend = "stub"
        /\ FreshCall(r) /\ Returned(r)
        /\ cache[r] = AloneRun(r, cache[r].idea, inv[r])
        /\ pc[o] = "generate" /\ stage[o] = 3
        /\ Len(cache[o].messages) = 2
        /\ cache[o].idea # cache[r].idea
        /\ files[o]["conversation"] = NoFile

\* C20: what a reader gets from get_run is what update_run wrote: a message
\* a stage appended, or a status change, is not in it before the update_run
\* that follows the append or the change.
C20_ReaderSeesPersisted ==
    [][\A r \in RunIds :
          seen'[r] # seen[r] =>
              /\ seen'[r] = IF disk[r] = NoRun THEN NoRun ELSE load_run(disk[r])
              /\ seen'[r] = get_run(r)]_vars

\* C20 witness: the reader got the Run with two messages while stage 3 was
\* waiting for its generation call; the third message is appended since and
\* not yet written.
C20_Witness ==
    \E r \in RunIds :
        /\ seen[r] \notin {NotRead, NoRun}
        /\ seen[r].status = "running"
        /\ Len(seen[r].messages) = 2
        /\ pc[r] = "update_run" /\ stage[r] = 3
        /\ Len(cache[r].messages) = 3
        /\ Len(disk[r].messages) = 2

\* C21: every pipeline terminates: a Run created pending that a run_agents
\* call has set running eventually has the status completed or failed, and the
\* call has ended.
C21_PipelineTerminates ==
    \A r \in RunIds :
        (cache[r] # NoRun /\ cache[r].status = "running")
            ~> (/\ cache[r] # NoRun
                /\ cache[r].status \in {"completed", "failed"}
                /\ pc[r] = "idle")

\* C21 witness: a call on a pending Run ended after the generation call of
\* stage 4 raised, the Run failed.
C21_Witness ==
    \E r \in RunIds :
        /\ FreshCall(r) /\ pc[r] = "idle" /\ outcome[r] = "raised"
        /\ Len(calls[r]) = 4 /\ LastCallRaised(r)
        /\ cache[r].status = "failed"

\* a direct call of the store has just returned
CallReturns(op) == ~call.called /\ call'.called /\ call'.op = op

\* C22: update_run on a Run that has not changed since run.json was written
\* for it leaves the messages of run.json, their order and their number, as
\* they are, and a get_run that follows returns what a get_run before returned.
C22_UpdateIdempotent ==
    [][\A r \in RunIds :
          (CallReturns("update_run") /\ call'.id = r /\ disk[r] = save_run(call'.run)) =>
              /\ disk'[r] # NoRun
              /\ disk'[r].messages = disk[r].messages
              /\ Len(disk'[r].messages) = Len(disk[r].messages)
              /\ get_run(r)' = get_run(r)]_vars

\* C22 witness: update_run succeeded on a completed Run with five messages that
\* was read from run.json and not changed; run.json holds the five messages.
C22_Witness ==
    /\ call.called /\ call.op = "update_run" /\ call.returned
    /\ Len(call.run.messages) = 5
    /\ cache[call.id] = call.run
    /\ disk[call.id] = save_run(call.run)


\* the ids of the Runs the store holds
ExistingIds == { disk[o].id : o \in { x \in RunIds : disk[x] # NoRun } }

\* C23: create_run(idea) returns a Run whose id is the id of no Run there is,
\* with the idea, the status pending, no messages and paths for exactly the
\* artifacts prd_markdown, prd_pdf, conversation, mockup_json and bundle, and
\* run.json holds the Run when create_run returns.
C23_CreateRun ==
    [][\A r \in RunIds, idea \in Ideas :
          create_run(r, idea) =>
              /\ ret'[r].id \notin ExistingIds
              /\ ret'[r].idea = idea
              /\ ret'[r].status = "pending"
              /\ ret'[r].messages = <<>>
              /\ DOMAIN ret'[r].artifacts =
                    {"prd_markdown", "prd_pdf", "conversation", "mockup_json", "bundle"}
              /\ disk'[r] # NoRun
              /\ load_run(disk'[r]) = ret'[r]]_vars

\* C23 witness: create_run returned a Run while the store held a completed
\* Run of another idea; run.json of the new Run is written.
C23_Witness ==
    \E r, o \in RunIds :
        /\ ret[r] # NoRun /\ ret[r].status = "pending" /\ ret[r].idea = IdeaApp
        /\ disk[r] = save_run(ret[r])
        /\ o # r /\ disk[o] # NoRun /\ disk[o].status = "completed"
        /\ disk[o].idea # ret[r].idea


\* C24: a save_artifact that succeeds stores, for the types conversation and
\* mockup_json, the content parsed and pretty-printed, and for every other
\* type the content as it was passed in.
C24_SaveArtifactCanonical ==
    [][(CallReturns("save_artifact") /\ call'.returned) =>
          LET stored == files'[call'.id][call'.type]
          IN  /\ (/\ call'.type \in {"conversation", "mockup_json"}
                   /\ JsonLoads(call'.content) # DecodeError) =>
                      stored = TextFile(JsonDumps(JsonLoads(call'.content)))
              /\ call'.type \notin {"conversation", "mockup_json"} =>
                      stored = TextFile(call'.content)]_vars


\* the Runs of the ordering at the positions offset, ..., offset + limit - 1,
\* the first position being 0
Window(ordering, limit, offset) ==
    LET at == { p \in 1..Len(ordering) : offset < p /\ p <= offset + limit }
    IN  [i \in 1..Cardinality(at) |-> ordering[i + Cardinality({ p \in 1..Len(ordering) : p <= offset })]]

\* C25: list_runs(limit, offset), for an offset that is a position, returns
\* the window of at most limit Runs that starts at the position offset of an
\* ordering of the stored Runs by created_at, newest first, in which every
\* stored Run appears once.
C25_ListRuns ==
    [][(CallReturns("list_runs") /\ call'.offset >= 0) =>
          \E ids \in Orders({ r \in RunIds : disk[r] # NoRun }) :
              LET ordering == [i \in 1..Len(ids) |-> load_run(disk[ids[i]])]
              IN  /\ \A i, j \in 1..Len(ordering) :
                        i < j => ordering[i].created_at >= ordering[j].created_at
                  /\ call'.returned = <<>> \o Window(ordering, call'.limit, call'.offset)]_vars

\* C26: generate_from_markdown raises nothing, and when it leaves no rendered
\* document, whatever the generator type and whatever the libraries did, a
\* placeholder that contains the markdown text is written (the disk taking
\* the write).
C26_RenderDegrades ==
    (call.called /\ call.op = "generate_from_markdown") =>
        /\ ~call.result.raised
        /\ (call.result.pdf.kind # "pdf" /\ call.write_ok) =>
              \E placeholder \in {call.result.pdf, call.result.txt} :
                  /\ placeholder.kind = "text"
                  /\ Contains(placeholder.text, call.markdown)

\* C27: a run_agents call that raises, for a Run that is not there or from a
\* failed pipeline, ends its background task with a normal return, and the
\* pipeline of another Run that is under way then goes on to its end.
C27_FailureStaysLocal ==
    /\ [](\A r \in RunIds :
             outcome[r] = "raised" =>
                 /\ exc[r] \in ExceptionClasses
                 /\ run_agents_background(outcome[r], exc[r]) = "returned")
    /\ \A r, o \in RunIds :
          (r # o /\ outcome[r] = "raised" /\ pc[o] # "idle")
              ~> (/\ pc[o] = "idle"
                  /\ outcome[o] \in {"returned", "raised"}
                  /\ cache[o] # NoRun
                  /\ cache[o].status \in {"completed", "failed"})

\* C27 witness: the pipeline of one Run failed in its second stage and its
\* call raised; the pipeline of the other Run made its five calls and
\* returned with the Run completed.
C27_Witness ==
    \E r, o \in RunIds :
        /\ r # o
        /\ FreshCall(r) /\ pc[r] = "idle" /\ outcome[r] = "raised"
        /\ Len(calls[r]) = 2 /\ LastCallRaised(r)
        /\ cache[r].status = "failed"
        /\ run_agents_background(outcome[r], exc[r]) = "returned"
        /\ Returned(o) /\ Len(calls[o]) = 5 /\ cache[o].status = "completed"

\* C28: in one run_agents call the generation calls are made for the stages
\* strategist, architect, ux_writer, mockup_designer, synthesizer in this
\* order, one for a stage, and when the call of stage k+1 starts the message
\* of stage k is the last message of the Run and run.json holds the Run.
C28_StagesInOrder ==
    \A r \in RunIds :
        /\ Len(calls[r]) <= Len(StageNames)
        /\ \A k \in 1..Len(calls[r]) : calls[r][k].agent = StageNames[k]
        /\ (pc[r] = "generate" /\ stage[r] > 1) =>
              LET k == stage[r] - 1
                  messages == cache[r].messages
              IN  /\ Len(calls[r]) = k
                  /\ Len(messages) = startLen[r] + k
                  /\ messages[Len(messages)].role = StageNames[k]
                  /\ messages[Len(messages)].step = k
                  /\ disk[r] = save_run(cache[r])

\* the content of the last message of the role, the empty string if the Run
\* has no message of the role
LastContent(run, role) ==
    LET of == { i \in 1..Len(run.messages) : run.messages[i].role = role }
    IN  IF of = {} THEN <<>>
        ELSE run.messages[CHOOSE i \in of : \A j \in of : j <= i].content

\* C29: the analysis values in the context of the stages architect, ux_writer
\* and mockup_designer (strategist_analysis; architect_analysis;
\* architect_analysis and ux_writer_analysis) are the content of the last
\* message of that role the Run has when the stage starts, the empty string
\* if it has none; the contexts are taken of the Run as it is at any moment
\* of a pipeline, so also of a Run that has no message yet.
C29_ContextPropagation ==
    \A r \in RunIds :
        cache[r] # NoRun =>
            /\ stage_context(cache[r], 2).strategist_analysis
                  = LastContent(cache[r], "strategist")
            /\ stage_context(cache[r], 3).architect_analysis
                  = LastContent(cache[r], "architect")
            /\ stage_context(cache[r], 4).architect_analysis
                  = LastContent(cache[r], "architect")
            /\ stage_context(cache[r], 4).ux_writer_analysis
                  = LastContent(cache[r], "ux_writer")

\* C29 witness: the mockup_designer stage of a second run_agents call starts
\* with the stub client; the Run has two architect messages and two ux_writer
\* messages, the last ones of the current call, and their contents differ.
C29_Witness ==
    \E r \in RunIds :
        /\ cfg.backend = "stub"
        /\ pc[r] = "generate" /\ stage[r] = 4
        /\ startLen[r] = 5 /\ Len(cache[r].messages) = 8
        /\ stage_context(cache[r], 4).architect_analysis = cache[r].messages[7].content
        /\ stage_context(cache[r], 4).ux_writer_analysis = cache[r].messages[8].content
        /\ cache[r].messages[7].content # cache[r].messages[8].content

\* the block of a message: the header with the role in upper case and the
\* step, a line break, the content, a line break
TranscriptBlock(message) ==
    <<"=","=","="," ">> \o Upper(NameText(message.role)) \o <<" ","(","S","t","e","p"," ">>
        \o DigitText(message.step) \o <<")"," ","=","=","=">> \o <<NL>>
        \o message.content \o <<NL>>

\* the blocks of the first n messages in append order, an empty line between
\* two blocks
RECURSIVE Transcript(_, _)
Transcript(messages, n) ==
    IF n = 0 THEN <<>>
    ELSE IF n = 1 THEN TranscriptBlock(messages[1])
    ELSE Transcript(messages, n - 1) \o <<NL>> \o TranscriptBlock(messages[n])

\* C30: the transcript the synthesizer stage builds when it starts is the
\* sequence of the blocks of the messages the Run has then, one block for a
\* message, in append order, separated by an empty line: on a new Run the
\* blocks of the steps 1 to 4 and none of the synthesizer.
C30_TranscriptFormat ==
    \A r \in RunIds :
        (pc[r] = "generate" /\ stage[r] = 5) =>
            LET messages == cache[r].messages
                transcript == stage_context(cache[r], 5).conversation_history
            IN  /\ transcript = Transcript(messages, Len(messages))
                /\ FreshCall(r) =>
                      /\ Steps(messages) = <<1, 2, 3, 4>>
                      /\ Roles(messages) = SubSeq(StageNames, 1, 4)
                      /\ Count(transcript, <<"=","=","="," ">>) = 4

\* C30 witness: the synthesizer stage starts on a new Run with the stub
\* client; the transcript begins with the header of the strategist message and
\* ends with the content of the mockup_designer message and a line break.
C30_Witness ==
    \E r \in RunIds :
        /\ cfg.backend = "stub"
        /\ FreshCall(r) /\ pc[r] = "generate" /\ stage[r] = 5
        /\ Len(cache[r].messages) = 4
        /\ LET transcript == format_conversation_history(cache[r])
           IN  /\ MatchAt(transcript,
                          <<"=","=","="," ","S","T","R","A","T","E","G","I","S","T"," ",
                            "(","S","t","e","p"," ","1",")"," ","=","=","=",NL>>, 1)
               /\ Contains(transcript,
                           <<NL,NL,"=","=","="," ","M","O","C","K","U","P","_","D","E","S","I",
                             "G","N","E","R"," ","(","S","t","e","p"," ","4",")"," ","=","=","=",
                             NL>> \o cache[r].messages[4].content \o <<NL>>)
               /\ transcript[Len(transcript)] = NL

\* the task of r was in its pipeline: the Run is set running, the call has
\* neither set it completed nor ended
InPipeline(r) ==
    pc[r] \in {"generate", "add_message", "save_mockup", "save_prd", "generate_pdf",
               "update_run", "complete", "except"}

\* the stages of the current call whose update_run has finished
StagesPersisted(r) == IF pc[r] = "complete" THEN 5 ELSE stage[r] - 1

\* C31: after a crash that found the pipeline of a new Run under way, run.json
\* holds the Run with the status running and with the messages of the stages
\* whose update_run finished, steps 1..k, and nothing of the stage in hand.
C31_CrashDurability ==
    down =>
        \A r \in RunIds :
            (FreshCall(r) /\ InPipeline(r)) =>
                /\ disk[r] \notin {NoRun, TornFile}
                /\ disk[r].status = "running"
                /\ \E k \in 0..Len(StageNames) :
                      /\ disk[r].messages = SubSeq(cache[r].messages, 1, k)
                      /\ Steps(disk[r].messages) = [i \in 1..k |-> i]
                      /\ k >= StagesPersisted(r)

\* run.json of r holds a message of the role
Persisted(r, role) ==
    /\ disk[r] \notin {NoRun, TornFile}
    /\ \E i \in 1..Len(disk[r].messages) : disk[r].messages[i].role = role

\* C32: in every stage update_run is the operation that follows the append of
\* the message: while the Run object has a message that run.json has not, the
\* task is at its update_run, and an artifact of a stage is on the disk only
\* when run.json holds the message of the stage.
C32_PersistRightAfterAppend ==
    \A r \in RunIds :
        (cache[r] # NoRun /\ disk[r] # NoRun) =>
            /\ Len(cache[r].messages) > Len(disk[r].messages) => pc[r] = "update_run"
            /\ files[r]["mockup_json"] # NoFile => Persisted(r, "mockup_designer")
            /\ files[r]["prd_markdown"] # NoFile => Persisted(r, "synthesizer")
            /\ files[r]["prd_pdf"] # NoFile => Persisted(r, "synthesizer")

\* C33: in every state of a Run, in the cache and in run.json, the steps of
\* its messages grow strictly (they do not decrease and no two messages have
\* the same step), each is a stage number 1..5, and the message of step k has
\* the role of stage k.
C33_StepsInStageOrder ==
    \A r \in RunIds :
        \A run \in StoredRuns(r) :
            LET messages == run.messages
            IN  /\ \A i, j \in 1..Len(messages) :
                      i < j => messages[i].step < messages[j].step
                /\ \A i \in 1..Len(messages) :
                      /\ messages[i].step \in 1..Len(StageNames)
                      /\ messages[i].role = StageNames[messages[i].step]

\* the sequence before is the beginning of the sequence after
IsPrefix(before, after) ==
    /\ Len(before) <= Len(after)
    /\ \A i \in 1..Len(before) :
          /\ after[i].role = before[i].role
          /\ after[i].content = before[i].content
          /\ after[i].step = before[i].step

\* C34: over every step the messages of a Run, of the Run object and of
\* run.json, are extended at the end only: the messages before the step are the
\* first messages after it, with their role, content and step.
C34_MessagesAppendOnly ==
    [][\A r \in RunIds :
          /\ cache[r] # NoRun =>
                (cache'[r] # NoRun /\ IsPrefix(cache[r].messages, cache'[r].messages))
          /\ disk[r] # NoRun =>
                (disk'[r] # NoRun /\ IsPrefix(disk[r].messages, disk'[r].messages))]_vars

\* C34 witness: a second run_agents call on a completed Run has appended its
\* strategist message; the five messages of the first call, which run.json
\* holds, are the first five of the six.
C34_Witness ==
    \E r \in RunIds :
        /\ startStatus[r] = "completed" /\ startLen[r] = 5
        /\ pc[r] = "update_run" /\ stage[r] = 1
        /\ Len(cache[r].messages) = 6
        /\ disk[r].messages = SubSeq(cache[r].messages, 1, 5)
        /\ cache[r].messages[6].step = 1

\* the fields of a Run that run_agents is to leave alone
Frame(run) ==
    [id |-> run.id, idea |-> run.idea, user_answers |-> run.user_answers,
     assumptions |-> run.assumptions, artifacts |-> run.artifacts]

\* C35: run_agents leaves the id, the idea, user_answers, assumptions and
\* the artifacts mapping of the Run as create_run made them: no step of a task
\* changes them in the Run object or in run.json, and when a call has ended,
\* completed or failed, they are those of the Run create_run returned.
C35_FrameUnchanged ==
    [][\A r \in RunIds :
          /\ cache[r] # NoRun => Frame(cache'[r]) = Frame(cache[r])
          /\ disk[r] # NoRun => Frame(disk'[r]) = Frame(disk[r])
          /\ (pc[r] # "idle" /\ pc'[r] = "idle") =>
                /\ cache'[r].status \in {"completed", "failed"}
                /\ Frame(cache'[r]) = Frame(ret'[r])
                /\ Frame(disk'[r]) = Frame(ret'[r])
                /\ DOMAIN cache'[r].artifacts = ArtifactTypes]_vars

\* C35 witness: a call returned with the Run completed after the rendering sink
\* failed to render; the artifacts mapping is the one create_run registered,
\* with prd_pdf at PRD.pdf.
C35_Witness ==
    \E r \in RunIds :
        /\ Returned(r) /\ cache[r].status = "completed"
        /\ pdfResult[r] = "failed"
        /\ files[r]["prd_pdf"] = NoFile
        /\ cache[r].artifacts = ret[r].artifacts
        /\ cache[r].artifacts["prd_pdf"].file = "PRD.pdf"
        /\ cache[r].idea = ret[r].idea

\* C36: once create_run(idea) has returned a Run, get_run of its id returns a
\* Run, not None, with the id, the idea, the status pending and the artifacts
\* mapping of the Run returned, and so does the GET handler; get_run of an id
\* no Run was created with returns None.
C36_CreateGetRoundTrip ==
    [][\A r \in RunIds :
          /\ ret'[r] # NoRun =>
                /\ get_run(r)' # NoRun
                /\ get_run(r)'.id = ret'[r].id
                /\ get_run(r)'.idea = ret'[r].idea
                /\ get_run(r)'.status = "pending"
                /\ get_run(r)'.artifacts = ret'[r].artifacts
          /\ (ret'[r] = NoRun /\ disk'[r] = NoRun) => get_run(r)' = NoRun
          /\ api_get_run(r) =>
                /\ seen'[r] = get_run(r)
                /\ ret[r] # NoRun => (seen'[r] # NoRun /\ seen'[r].idea = ret[r].idea)
                /\ (ret[r] = NoRun /\ disk[r] = NoRun) => seen'[r] = NoRun]_vars

\* C36 witness: the GET handler returned the Run create_run had made of the
\* idea "app", and None for the other id, which no Run has.
C36_Witness ==
    \E r, o \in RunIds :
        /\ ret[r] # NoRun /\ ret[r].idea = IdeaApp
        /\ seen[r] \notin {NotRead, NoRun}
        /\ seen[r].idea = IdeaApp /\ seen[r].status = "pending"
        /\ o # r /\ disk[o] = NoRun /\ seen[o] = NoRun

\* C37: when a run_agents call has ended, by returning the Run or by raising
\* the exception of a stage, run.json has the status and the messages of the
\* Run object the caller is left with.
C37_PersistedAtEnd ==
    \A r \in RunIds :
        (inv[r] > 0 /\ pc[r] = "idle" /\ outcome[r] \in {"returned", "raised"}) =>
            /\ disk[r] # NoRun
            /\ disk[r].status = cache[r].status
            /\ disk[r].messages = cache[r].messages

\* C38: in every state of a Run, in memory and in run.json, completed_at is
\* set exactly when the status is completed; and a Run whose status is
\* failed has no conversation snapshot file.
C38_CompletedAtIffCompleted ==
    \A r \in RunIds :
        /\ \A run \in StoredRuns(r) :
              (run.completed_at # NullTime) <=> (run.status = "completed")
        /\ (cache[r] # NoRun /\ cache[r].status = "failed") =>
              files[r]["conversation"].kind = "absent"

=========================================================================
